---------------------------- MODULE Spec2Model ----------------------------
(***************************************************************************)
(* Block diagram viewer of hardforge                                       *)
(* (frontend/src/components/workspace/chat-panel.tsx): hierarchical        *)
(* layering and layout of blocks, orthogonal routing, waypoint editing,    *)
(* the pointer interaction controller and the debounced persistence of     *)
(* layout overrides.                                                       *)
(*                                                                         *)
(* Conventions: JavaScript arrays are sequences (1-based here, the code    *)
(* is 0-based: where the code stores an index, the model stores the same   *)
(* 0-based number and adds 1 on access); a JavaScript Map is a function    *)
(* with a finite domain; a Set is a set.  null / undefined is None.        *)
(***************************************************************************)
EXTENDS Integers, Sequences, FiniteSets, TLC

VARIABLES
    \* ---- props
    blocks,        \* prop blocks: Block[]
    connections,   \* prop connections: BlockConnection[]
    designId,      \* prop designId (None when undefined)
    \* ---- one call of layoutBlocks (specification SpecLayout)
    phase,         \* "input" before layoutBlocks has run, "done" after
    groupColumn,   \* hwGroups[i].column after layoutBlocks
    blockColumn,   \* per group: blockColumn Map (block id -> sub-column)
    layoutOut,     \* the LayoutBlock[] that layoutBlocks returns
    rerun,         \* the columns and rectangles of a second call on the same input
    offsetsOut,    \* the connectionOffsets Map computed for `connections`
    channel,       \* one call of findClearVerticalChannel: its arguments and result
    \* ---- the mounted BlockDiagramViewer
    mounted,       \* the component is mounted
    crashed,       \* an exception escaped an effect or a handler
    zoom, pan,
    dragging,
    lastPos,
    draggedBlockId, draggedBlockRef,
    blockPositionOverrides, connPointOverrides, connWaypoints,
    selectedConn, hoveredConn,
    draggedNodeRef,
    dragStartPos, connDragStart, connDragBaseOverrides,
    layout,            \* the memoised layout (useMemo) of the last render
    computedPaths,     \* the memoised connection paths (useMemo) of the last render
    layoutSaveTimer,   \* layoutSaveTimer.current: the id of the last write timer
    layoutSaved,
    \* ---- the environment of the component
    localStorage,  \* per design id, the text stored under getLayoutKey(id)
    timers,        \* the browser's pending setTimeout callbacks
    warnings,      \* what the viewer has written to the console
    \* ---- history, for stating the claims
    lastEvent,     \* the name of the last event handled
    sinceChange,   \* ms elapsed since the last override change, up to SAVE_DEBOUNCE_MS
    wpTrip,        \* the connection's state before the waypoint insertion just made
    inputs         \* the number of inputs so far: mounts, design id changes and
                   \* pointer gestures (downs, double-clicks, context menus)

propVars == <<blocks, connections, designId>>
layoutVars == <<phase, groupColumn, blockColumn, layoutOut, rerun, offsetsOut, channel>>
viewVars == <<zoom, pan>>
dragVars == <<dragging, lastPos, draggedBlockId, draggedBlockRef, draggedNodeRef,
              dragStartPos, connDragStart, connDragBaseOverrides>>
overrideVars == <<blockPositionOverrides, connPointOverrides, connWaypoints>>
selectVars == <<selectedConn, hoveredConn>>
memoVars == <<layout, computedPaths>>
saveVars == <<layoutSaveTimer, layoutSaved, localStorage, timers>>

histVars == <<lastEvent, sinceChange, wpTrip, inputs>>

vars == <<propVars, layoutVars, mounted, crashed, viewVars, dragVars, overrideVars,
          selectVars, memoVars, saveVars, warnings, histVars>>

\* null / undefined is None, a present value v is Some(v)
None == <<>>
Some(v) == <<v>>
Get(o) == o[1]

\* ----------------------------------------------------------------- bounds
MaxBlocks == 3
MaxInputs == 3
\* Interior points of a path that the events are tried on
MaxNodes == 6
MaxConns == 3

\* ------------------------------------------------------ program constants
BLOCK_WIDTH == 180
BLOCK_HEADER == 36
PORT_ROW == 20
H_GAP == 200
PADDING == 60
GROUP_PAD_X == 20
GROUP_PAD_TOP == 30
GROUP_PAD_BOTTOM == 20
GROUP_GAP == 40
INTRA_GROUP_H_GAP == 40
INTRA_GROUP_V_GAP == 20
BLOCK_PAD == 12

\* ---------------------------------------------------------------- helpers
Max2(a, b) == IF a >= b THEN a ELSE b
Min2(a, b) == IF a <= b THEN a ELSE b
Abs(a) == IF a >= 0 THEN a ELSE -a

SetMax(S) == CHOOSE m \in S : \A x \in S : x <= m
SetMin(S) == CHOOSE m \in S : \A x \in S : m <= x

\* The one element of a singleton set; {e(x) : x \in {v}} evaluates v once
The(S) == CHOOSE x \in S : TRUE

\* The array with the elements of the function f on 1..n
AsArray(f) == f \o <<>>

Range(s) == {s[i] : i \in DOMAIN s}

\* Concatenation of a sequence of sequences (result.push(...x) in a loop)
RECURSIVE Flatten(_)
Flatten(ss) == IF ss = <<>> THEN <<>> ELSE Head(ss) \o Flatten(Tail(ss))

\* ------------------------------------------------------------ layoutBlocks
\* Index in the association list `m` of the entry named `name`, 0 if absent
\* (Map.has / Map.get on hwGroupMap).
MapIndex(m, name) ==
    IF \E i \in DOMAIN m : m[i].name = name
    THEN CHOOSE i \in DOMAIN m : m[i].name = name
    ELSE 0

\* The key of a block without host_hardware: `__solo_${soloGroupId++}`
SoloName(k) == "__solo_" \o ToString(k)

\* LEVEL 1: partition blocks by hardware.  hwGroupMap is a Map: it keeps the
\* insertion order of its keys, and set() on an existing key replaces the value
\* in place.
RECURSIVE HwGroupMapFrom(_, _, _, _)
HwGroupMapFrom(bs, i, m, soloGroupId) ==
    IF i > Len(bs) THEN m
    ELSE LET b == bs[i]
             hw == b.host_hardware
         IN IF hw # ""
            THEN LET k == MapIndex(m, hw)
                     m1 == IF k = 0 THEN Append(m, [name |-> hw, blocks |-> <<>>]) ELSE m
                     k1 == MapIndex(m1, hw)
                 IN HwGroupMapFrom(bs, i + 1,
                        [m1 EXCEPT ![k1].blocks = Append(@, b)], soloGroupId)
            ELSE LET nm == SoloName(soloGroupId)
                     k == MapIndex(m, nm)
                 IN HwGroupMapFrom(bs, i + 1,
                        IF k = 0 THEN Append(m, [name |-> nm, blocks |-> <<b>>])
                        ELSE [m EXCEPT ![k].blocks = <<b>>],
                        soloGroupId + 1)

\* The partition with a soloGroupId that lives on from one call to the next
\* instead of starting at 0 in each call
HwGroupsCounterKept(bs) ==
    HwGroupMapFrom(bs, 1, <<>>,
                   IF phase = "input" THEN 0
                   ELSE Cardinality({i \in DOMAIN bs : bs[i].host_hardware = ""}))

\* hwGroups: Array.from(hwGroupMap.entries()), group i of the code is hwGroups[i+1]
HwGroups(bs) == HwGroupMapFrom(bs, 1, <<>>, 0)

GroupBlockIds(g) == {g.blocks[j].id : j \in DOMAIN g.blocks}

\* blockToGroupIdx: a later group's set() wins
BlockToGroupIdx(hwGroups) ==
    [id \in UNION {GroupBlockIds(hwGroups[i]) : i \in DOMAIN hwGroups} |->
        SetMax({i \in DOMAIN hwGroups : id \in GroupBlockIds(hwGroups[i])})]

\* The group adjacency when a connection to a block that does not exist is
\* taken to the last group instead of being skipped
GroupOutgoingToLast(hwGroups, cs) ==
    LET b2g == BlockToGroupIdx(hwGroups)
        To(k) == IF cs[k].to_block \in DOMAIN b2g THEN b2g[cs[k].to_block]
                 ELSE Len(hwGroups)
    IN [g \in DOMAIN hwGroups |->
          {To(k) : k \in {k \in DOMAIN cs :
              /\ cs[k].from_block \in DOMAIN b2g
              /\ b2g[cs[k].from_block] = g
              /\ To(k) # g}}]

\* groupOutgoing / groupIncoming: connections between two different groups
GroupOutgoing(hwGroups, cs) ==
    LET b2g == BlockToGroupIdx(hwGroups)
    IN [g \in DOMAIN hwGroups |->
          {b2g[cs[k].to_block] : k \in {k \in DOMAIN cs :
              /\ cs[k].from_block \in DOMAIN b2g
              /\ cs[k].to_block \in DOMAIN b2g
              /\ b2g[cs[k].from_block] = g
              /\ b2g[cs[k].to_block] # g}}]

GroupIncoming(hwGroups, cs) ==
    LET out == GroupOutgoing(hwGroups, cs)
    IN [g \in DOMAIN hwGroups |-> {f \in DOMAIN hwGroups : g \in out[f]}]

\* The frontier loop shared by both levels (lines 395-414 and 446-465):
\* every unassigned node of the frontier gets the current column, the next
\* frontier is every unassigned destination of the frontier.  Returns the
\* column map and the column counter after the loop.
RECURSIVE FrontierLoop(_, _, _, _)
FrontierLoop(frontier, col, column, outgoing) ==
    IF frontier = {} THEN [column |-> column, col |-> col]
    ELSE LET fresh == frontier \ DOMAIN column
             column1 == [n \in DOMAIN column \cup fresh |->
                            IF n \in DOMAIN column THEN column[n] ELSE col]
             next == {d \in UNION {outgoing[n] : n \in frontier} :
                          d \notin DOMAIN column1}
         IN FrontierLoop(next, col + 1, column1, outgoing)

EmptyMap == [n \in {} |-> 0]

\* BFS layering for group columns, then "assign disconnected groups to last column"
GroupColumns(hwGroups, cs) ==
    LET incoming == GroupIncoming(hwGroups, cs)
        outgoing == GroupOutgoing(hwGroups, cs)
        rootGroups == {g \in DOMAIN hwGroups : incoming[g] = {}}
        r == FrontierLoop(rootGroups, 0, EmptyMap, outgoing)
    IN [g \in DOMAIN hwGroups |->
          IF g \in DOMAIN r.column THEN r.column[g] ELSE r.col]

\* LEVEL 2: intra-group adjacency
IntraOutgoing(g, cs) ==
    [id \in GroupBlockIds(g) |->
        {cs[k].to_block : k \in {k \in DOMAIN cs :
            /\ cs[k].from_block = id
            /\ cs[k].to_block \in GroupBlockIds(g)}}]

IntraIncoming(g, cs) ==
    [id \in GroupBlockIds(g) |->
        {cs[k].from_block : k \in {k \in DOMAIN cs :
            /\ cs[k].to_block = id
            /\ cs[k].from_block \in GroupBlockIds(g)}}]

\* "Topological sort within group", then "assign disconnected blocks within group"
BlockColumns(g, cs) ==
    LET incoming == IntraIncoming(g, cs)
        outgoing == IntraOutgoing(g, cs)
        roots == {id \in GroupBlockIds(g) : incoming[id] = {}}
        r == FrontierLoop(roots, 0, EmptyMap, outgoing)
    IN [id \in GroupBlockIds(g) |->
          IF id \in DOMAIN r.column THEN r.column[id] ELSE r.col]

BlockHeight(b) ==
    BLOCK_HEADER + Max2(Max2(Len(b.inputs), Len(b.outputs)), 1) * PORT_ROW + BLOCK_PAD

\* subColGroups: the sub-columns in the order of their first block
RECURSIVE SubColOrder(_, _, _)
SubColOrder(bs, col, seen) ==
    IF bs = <<>> THEN <<>>
    ELSE LET c == col[Head(bs).id]
         IN IF c \in seen THEN SubColOrder(Tail(bs), col, seen)
            ELSE <<c>> \o SubColOrder(Tail(bs), col, seen \cup {c})

\* One sub-column stacked from yOffset 0 (relative positions)
RECURSIVE StackColumn(_, _, _)
StackColumn(bs, subCol, yOffset) ==
    IF bs = <<>> THEN <<>>
    ELSE LET b == Head(bs)
             h == BlockHeight(b)
         IN <<[block |-> b,
               x |-> subCol * (BLOCK_WIDTH + INTRA_GROUP_H_GAP),
               y |-> yOffset,
               width |-> BLOCK_WIDTH,
               height |-> h]>>
            \o StackColumn(Tail(bs), subCol, yOffset + h + INTRA_GROUP_V_GAP)

\* tempLayout of one group
TempLayout(g, cs) ==
    LET col == BlockColumns(g, cs)
        order == SubColOrder(g.blocks, col, {})
        InCol(c) == LET Keep(b) == col[b.id] = c IN SelectSeq(g.blocks, Keep)
    IN Flatten([k \in DOMAIN order |-> StackColumn(InCol(order[k]), order[k], 0)])

\* group.width / group.height (0 when the group has no layout block)
GroupWidth(tl) ==
    IF tl = <<>> THEN 0
    ELSE SetMax({tl[i].x + tl[i].width : i \in DOMAIN tl})
         - SetMin({tl[i].x : i \in DOMAIN tl}) + GROUP_PAD_X * 2

GroupHeight(tl) ==
    IF tl = <<>> THEN 0
    ELSE SetMax({tl[i].y + tl[i].height : i \in DOMAIN tl})
         - SetMin({tl[i].y : i \in DOMAIN tl}) + GROUP_PAD_TOP + GROUP_PAD_BOTTOM

\* LEVEL 3: canvasX of group column c: PADDING plus, for every smaller column
\* in use, its widest group and H_GAP
CanvasX(c, gcol, tls) ==
    LET used == {gcol[g] : g \in DOMAIN gcol}
        ColWidth(k) == SetMax({GroupWidth(tls[g]) : g \in {g \in DOMAIN gcol : gcol[g] = k}})
        RECURSIVE Sum(_)
        Sum(S) == IF S = {} THEN 0
                  ELSE LET k == SetMin(S) IN ColWidth(k) + H_GAP + Sum(S \ {k})
    IN PADDING + Sum({k \in used : k < c})

\* Every group of a column placed at the top of the canvas
CanvasYUnstacked(g, gcol, tls) == PADDING

\* canvasY of group g: PADDING plus the earlier groups of its column and GROUP_GAP
CanvasY(g, gcol, tls) ==
    LET before == {h \in DOMAIN gcol : gcol[h] = gcol[g] /\ h < g}
        RECURSIVE Sum(_)
        Sum(S) == IF S = {} THEN 0
                  ELSE LET h == SetMin(S) IN GroupHeight(tls[h]) + GROUP_GAP + Sum(S \ {h})
    IN PADDING + Sum(before)

Translate(tl, dx, dy) ==
    [i \in DOMAIN tl |-> [tl[i] EXCEPT !.x = @ + dx, !.y = @ + dy]]

layoutBlocks(bs, cs) ==
    IF Len(bs) = 0 THEN <<>>
    ELSE The({The({The({
            Flatten([g \in DOMAIN hwGroups |->
                Translate(tls[g],
                          CanvasX(gcol[g], gcol, tls) + GROUP_PAD_X,
                          CanvasY(g, gcol, tls) + GROUP_PAD_TOP)])
            : tls \in {AsArray([g \in DOMAIN hwGroups |-> TempLayout(hwGroups[g], cs)])}})
            : gcol \in {AsArray(GroupColumns(hwGroups, cs))}})
            : hwGroups \in {HwGroups(bs)}})

\* ------------------------------------------------------- numbers
\* Coordinates, deltas and the zoom factor are JavaScript numbers.  They are
\* modelled as exact rationals <<numerator, denominator>> in lowest terms with a
\* positive denominator, so that a division (by zoom, by 2) is a division.
RECURSIVE GCD(_, _)
GCD(a, b) == IF b = 0 THEN a ELSE GCD(b, a % b)

Rat(n, d) ==
    LET s == IF d < 0 THEN -1 ELSE 1
        g == GCD(Abs(n), Abs(d))
    IN <<(s * n) \div g, (s * d) \div g>>

R(n) == <<n, 1>>

\* Sums go over the least common denominator and products cancel crosswise
\* first, so that intermediate values stay small; whole numbers are added and
\* multiplied as they are
RAdd(a, b) ==
    IF a[2] = 1 /\ b[2] = 1 THEN <<a[1] + b[1], 1>>
    ELSE LET g == GCD(a[2], b[2])
         IN Rat(a[1] * (b[2] \div g) + b[1] * (a[2] \div g), (a[2] \div g) * b[2])
RNeg(a) == <<0 - a[1], a[2]>>
RSub(a, b) ==
    IF a[2] = 1 /\ b[2] = 1 THEN <<a[1] - b[1], 1>>
    ELSE RAdd(a, RNeg(b))
RMul(a, b) ==
    IF a[2] = 1 /\ b[2] = 1 THEN <<a[1] * b[1], 1>>
    ELSE LET g1 == GCD(Abs(a[1]), b[2])
             g2 == GCD(Abs(b[1]), a[2])
         IN Rat((a[1] \div g1) * (b[1] \div g2), (a[2] \div g2) * (b[2] \div g1))
RDiv(a, b) == RMul(a, IF b[1] < 0 THEN <<0 - b[2], 0 - b[1]>> ELSE <<b[2], b[1]>>)

\* n1 / d1 < n2 / d2 for two proper fractions (0 <= n < d), compared through
\* their reciprocals so that no product is formed
RECURSIVE FracLt(_, _, _, _)
FracLt(n1, d1, n2, d2) ==
    IF n2 = 0 THEN FALSE
    ELSE IF n1 = 0 THEN TRUE
    ELSE LET q1 == d1 \div n1
             q2 == d2 \div n2
         IN IF q1 # q2 THEN q2 < q1
            ELSE FracLt(d2 % n2, n2, d1 % n1, n1)

\* Order: by the integer parts, then by the fractional parts
RLt(a, b) ==
    IF a[2] = 1 /\ b[2] = 1 THEN a[1] < b[1]
    ELSE LET fa == a[1] \div a[2]
             fb == b[1] \div b[2]
         IN \/ fa < fb
            \/ fa = fb /\ FracLt(a[1] % a[2], a[2], b[1] % b[2], b[2])
RLe(a, b) == ~RLt(b, a)
RAbs(a) == <<Abs(a[1]), a[2]>>
RMax(a, b) == IF RLt(a, b) THEN b ELSE a
RMin(a, b) == IF RLt(b, a) THEN b ELSE a

\* Math.max(...xs) / Math.min(...xs) over a nonempty set of rationals
RSetMax(S) == CHOOSE m \in S : \A x \in S : RLe(x, m)
RSetMin(S) == CHOOSE m \in S : \A x \in S : RLe(m, x)

Pt(x, y) == [x |-> x, y |-> y]

\* Math.hypot(ax - bx, ay - by) squared: distances are only compared with each
\* other and with constants, and squaring keeps the order.
DistSq(ax, ay, bx, by) ==
    RAdd(RMul(RSub(ax, bx), RSub(ax, bx)), RMul(RSub(ay, by), RSub(ay, by)))

\* ----------------------------------------------------- path strings
\* An SVG path string "M x y L x y ..." is the sequence of its
\* whitespace-separated parts: a command letter or a number.
Cmd(c) == [t |-> c, v |-> R(0)]
Num(v) == [t |-> "num", v |-> v]

\* pointsToPath: `${i === 0 ? "M" : "L"} ${p.x} ${p.y}` joined by " "
pointsToPath(points) ==
    Flatten([i \in DOMAIN points |->
        <<Cmd(IF i = 1 THEN "M" ELSE "L"), Num(points[i].x), Num(points[i].y)>>])

\* parsePathPoints: every "M" or "L" part starts a point made of the two parts
\* that follow it
RECURSIVE ParseFrom(_, _)
ParseFrom(parts, i) ==
    IF i > Len(parts) THEN <<>>
    ELSE IF parts[i].t \in {"M", "L"}
         THEN <<Pt(parts[i + 1].v, parts[i + 2].v)>> \o ParseFrom(parts, i + 1)
         ELSE ParseFrom(parts, i + 1)

parsePathPoints(pathStr) == ParseFrom(pathStr, 1)

\* A squared distance beyond every radius the viewer compares distances with
\* (about 46 pixels for a segment of 1000 pixels); squared distances whose exact
\* value does not fit the integers of the model are all represented by FarSq.
FarSq == R(1073741824)

\* a * b for two squared-distance factors, FarSq when the product does not fit
\* the integers of the model (at most 2147483647)
RMulFar(a, b) ==
    LET g1 == GCD(Abs(a[1]), b[2])
        g2 == GCD(Abs(b[1]), a[2])
        x == Abs(a[1] \div g1)
        y == Abs(b[1] \div g2)
    IN IF y # 0 /\ x > 2147483647 \div y THEN FarSq
       ELSE RAbs(RMul(a, b))

\* pointToSegmentDist, squared.  With t = clamp(dot / lenSq, 0, 1) the distance
\* from p to a + t (b - a) is the distance to a when dot <= 0, to b when
\* dot >= lenSq, and otherwise |cross| / len, computed here without the
\* intermediate point so that the numbers stay in range.
pointToSegmentDistSq(px, py, ax, ay, bx, by) ==
    LET dx == RSub(bx, ax)
        dy == RSub(by, ay)
        lenSq == RAdd(RMul(dx, dx), RMul(dy, dy))
        dot == RAdd(RMul(RSub(px, ax), dx), RMul(RSub(py, ay), dy))
        cross == RSub(RMul(RSub(px, ax), dy), RMul(RSub(py, ay), dx))
    IN IF lenSq = R(0) THEN DistSq(px, py, ax, ay)
       ELSE IF RLe(dot, R(0)) THEN DistSq(px, py, ax, ay)
       ELSE IF RLe(lenSq, dot) THEN DistSq(px, py, bx, by)
       ELSE RMulFar(cross, RDiv(cross, lenSq))

\* The position of the first smallest element of a nonempty array of numbers:
\* the loop "if (d < best) { best = d; bestIdx = i; }" from best = Infinity
FirstMin(ds) ==
    CHOOSE k \in DOMAIN ds :
        \A u \in DOMAIN ds : RLe(ds[k], ds[u]) /\ (u < k => RLt(ds[k], ds[u]))

\* The first segment (0-based) of `pts` nearest to (px, py), 0 without segments
NearestSegment(pts, px, py) ==
    IF Len(pts) < 2 THEN 0
    ELSE FirstMin(AsArray([k \in 1..(Len(pts) - 1) |->
            pointToSegmentDistSq(px, py, pts[k].x, pts[k].y, pts[k + 1].x, pts[k + 1].y)])) - 1

\* ------------------------------------------------------------- router
CONNECTION_SPREAD == 15
PORT_OFFSET == 10

\* Array.prototype.indexOf (0-based, -1 when absent)
IndexOf(s, e) ==
    IF \E i \in DOMAIN s : s[i] = e
    THEN SetMin({i \in DOMAIN s : s[i] = e}) - 1
    ELSE -1

\* The lookup without the fallback to index 0 for a name that is not in the list
getPortPositionNoFallback(lb, portName, side) ==
    LET ports == IF side = "input" THEN lb.block.inputs ELSE lb.block.outputs
        idx == IndexOf(ports, portName)
    IN Pt(IF side = "input" THEN lb.x ELSE RAdd(lb.x, lb.width),
          RAdd(lb.y, R(BLOCK_HEADER + PORT_OFFSET + idx * PORT_ROW)))

getPortPosition(lb, portName, side) ==
    LET ports == IF side = "input" THEN lb.block.inputs ELSE lb.block.outputs
        idx == IndexOf(ports, portName)
        i == IF idx >= 0 THEN idx ELSE 0
    IN Pt(IF side = "input" THEN lb.x ELSE RAdd(lb.x, lb.width),
          RAdd(lb.y, R(BLOCK_HEADER + PORT_OFFSET + i * PORT_ROW)))

\* layoutMap.get(id): the last layout block with that id, None when absent
LayoutMapGet(lay, id) ==
    IF \E i \in DOMAIN lay : lay[i].block.id = id
    THEN Some(lay[SetMax({i \in DOMAIN lay : lay[i].block.id = id})])
    ELSE None

areBlocksInSameGroup(fromBlockId, toBlockId, lay) ==
    LET fromLb == LayoutMapGet(lay, fromBlockId)
        toLb == LayoutMapGet(lay, toBlockId)
    IN IF fromLb = None \/ toLb = None THEN FALSE
       ELSE IF Get(fromLb).block.host_hardware = "" \/ Get(toLb).block.host_hardware = ""
            THEN FALSE
            ELSE Get(fromLb).block.host_hardware = Get(toLb).block.host_hardware

lineIntersectsBlock(x, startY, endY, block, margin) ==
    LET minY == RMin(startY, endY)
        maxY == RMax(startY, endY)
        blockLeft == RSub(block.x, margin)
        blockRight == RAdd(RAdd(block.x, block.width), margin)
        blockTop == RSub(block.y, margin)
        blockBottom == RAdd(RAdd(block.y, block.height), margin)
    IN /\ RLe(blockLeft, x)
       /\ RLe(x, blockRight)
       /\ RLe(blockTop, maxY)
       /\ RLe(minY, blockBottom)

CHANNEL_MARGIN == 10
CHANNEL_STEP == 20
CHANNEL_MAX_OFFSET == 300

\* A search that probes the right side before the left
findClearVerticalChannelRightFirst(preferredX, startY, endY, blks) ==
    LET Clear(x) == \A i \in DOMAIN blks :
                        ~lineIntersectsBlock(x, startY, endY, blks[i], R(CHANNEL_MARGIN))
        RECURSIVE Probe(_)
        Probe(offset) ==
            IF offset > CHANNEL_MAX_OFFSET THEN preferredX
            ELSE IF Clear(RAdd(preferredX, R(offset))) THEN RAdd(preferredX, R(offset))
            ELSE IF Clear(RSub(preferredX, R(offset))) THEN RSub(preferredX, R(offset))
            ELSE Probe(offset + CHANNEL_STEP)
    IN IF Clear(preferredX) THEN preferredX ELSE Probe(CHANNEL_STEP)

findClearVerticalChannel(preferredX, startY, endY, blks) ==
    LET Clear(x) == \A i \in DOMAIN blks :
                        ~lineIntersectsBlock(x, startY, endY, blks[i], R(CHANNEL_MARGIN))
        RECURSIVE Probe(_)
        Probe(offset) ==
            IF offset > CHANNEL_MAX_OFFSET THEN preferredX
            ELSE IF Clear(RSub(preferredX, R(offset))) THEN RSub(preferredX, R(offset))
            ELSE IF Clear(RAdd(preferredX, R(offset))) THEN RAdd(preferredX, R(offset))
            ELSE Probe(offset + CHANNEL_STEP)
    IN IF Clear(preferredX) THEN preferredX ELSE Probe(CHANNEL_STEP)

EXIT_SAME_GROUP == 20
EXIT_OTHER_GROUP == 40
JOG_DISTANCE == 30
LOOP_MARGIN == 30
NEAR_MARGIN == 40

computeOrthogonalPath(fromPort, toPort, allBlocks, sameGroup, verticalOffset) ==
    LET exitDistance == R(IF sameGroup THEN EXIT_SAME_GROUP ELSE EXIT_OTHER_GROUP)
        exitX == RAdd(fromPort.x, exitDistance)
        entryX == RSub(toPort.x, exitDistance)
        fromY == RAdd(fromPort.y, verticalOffset)
        toY == RAdd(toPort.y, verticalOffset)
        straight == <<Cmd("M"), Num(fromPort.x), Num(fromPort.y),
                      Cmd("L"), Num(toPort.x), Num(toPort.y)>>
    IN IF RLt(RAbs(RSub(toPort.x, fromPort.x)), Rat(BLOCK_WIDTH, 2))
       THEN \* same column: vertical jog
            LET jogX == RAdd(RAdd(fromPort.x, R(JOG_DISTANCE)), RAbs(verticalOffset))
            IN pointsToPath(<<fromPort, Pt(jogX, fromY), Pt(jogX, toY), toPort>>)
       ELSE IF RLt(RAdd(fromPort.x, RMul(exitDistance, R(2))), toPort.x)
       THEN \* forward
            LET midX == RDiv(RAdd(exitX, entryX), R(2))
                baseChannelX == findClearVerticalChannel(midX, fromY, toY, allBlocks)
                channelX == RAdd(baseChannelX, RMul(verticalOffset, Rat(7, 10)))
            IN IF RLt(RAbs(RSub(fromY, toY)), R(1)) THEN straight
               ELSE pointsToPath(<<fromPort, Pt(channelX, fromY), Pt(channelX, toY), toPort>>)
       ELSE \* backward: loop around the diagram
            LET Near(py) == {i \in DOMAIN allBlocks :
                    RLt(RAbs(RSub(allBlocks[i].y, py)),
                        RAdd(allBlocks[i].height, R(NEAR_MARGIN)))}
                nearSrc == Near(fromPort.y)
                nearDst == Near(toPort.y)
                sourceRight ==
                    IF nearSrc # {}
                    THEN RSetMax({RAdd(allBlocks[i].x, allBlocks[i].width) : i \in nearSrc}
                                 \cup {fromPort.x})
                    ELSE fromPort.x
                destLeft ==
                    IF nearDst # {}
                    THEN RSetMin({allBlocks[i].x : i \in nearDst} \cup {toPort.x})
                    ELSE toPort.x
                loopRightX == RAdd(sourceRight, R(LOOP_MARGIN))
                loopLeftX == RSub(destLeft, R(LOOP_MARGIN))
            IN IF Len(allBlocks) = 0 THEN straight
               ELSE LET minTop == RSub(RSetMin({allBlocks[i].y : i \in DOMAIN allBlocks}),
                                       R(NEAR_MARGIN))
                        maxBottom == RAdd(RSetMax({RAdd(allBlocks[i].y, allBlocks[i].height) :
                                                     i \in DOMAIN allBlocks}), R(NEAR_MARGIN))
                        goUp == RLt(RAdd(RAbs(RSub(fromY, minTop)), RAbs(RSub(toY, minTop))),
                                    RAdd(RAbs(RSub(fromY, maxBottom)), RAbs(RSub(toY, maxBottom))))
                        loopY == IF goUp THEN RAdd(minTop, verticalOffset)
                                 ELSE RAdd(maxBottom, verticalOffset)
                    IN pointsToPath(<<fromPort, Pt(loopRightX, fromY), Pt(loopRightX, loopY),
                                      Pt(loopLeftX, loopY), Pt(loopLeftX, toY), toPort>>)

\* ------------------------------------------ path editing helpers
OVERRIDE_EPS == Rat(1, 10)
ZeroOv == [dx |-> R(0), dy |-> R(0)]

\* The loop of applyPointOverrides run over all the points, the first and the
\* last included: point i moves by overrides[i]
applyPointOverridesOnAll(pathStr, overrides) ==
    LET points == The({pts : pts \in {parsePathPoints(pathStr)}})
        Moved(i) ==
            IF i <= Len(overrides)
            THEN Pt(RAdd(points[i].x, overrides[i].dx), RAdd(points[i].y, overrides[i].dy))
            ELSE points[i]
    IN pointsToPath([i \in DOMAIN points |-> Moved(i)])

\* applyPointOverrides: interior points (indices 1..n-2 of the code) move by
\* overrides[i - 1] when that entry exists and is larger than 0.1 on an axis
applyPointOverrides(pathStr, overrides) ==
    LET points == The({pts : pts \in {parsePathPoints(pathStr)}})
        Moved(i) ==
            \* i is the 1-based position of code index i - 1
            LET k == i - 1
            IN IF k >= 1 /\ k <= Len(points) - 2 /\ k <= Len(overrides)
                  /\ (RLt(OVERRIDE_EPS, RAbs(overrides[k].dx))
                      \/ RLt(OVERRIDE_EPS, RAbs(overrides[k].dy)))
               THEN Pt(RAdd(points[i].x, overrides[k].dx), RAdd(points[i].y, overrides[k].dy))
               ELSE points[i]
    IN IF Len(points) < 3 THEN pathStr
       ELSE pointsToPath([i \in DOMAIN points |-> Moved(i)])

\* wpWithSeg of insertWaypointsIntoPath: the nearest segment of the path for a
\* waypoint, and the position t of its projection on that segment
WpWithSeg(points, wp) ==
    LET T(s) ==
            LET p1 == points[s + 1]
                p2 == points[s + 2]
                dx == RSub(p2.x, p1.x)
                dy == RSub(p2.y, p1.y)
                lenSq == RAdd(RMul(dx, dx), RMul(dy, dy))
            IN IF lenSq = R(0) THEN R(0)
               ELSE RMax(R(0), RMin(R(1),
                      RDiv(RAdd(RMul(RSub(wp.x, p1.x), dx), RMul(RSub(wp.y, p1.y), dy)), lenSq)))
        \* the distance from wp to p1 + t (p2 - p1), squared
        D(s) == pointToSegmentDistSq(wp.x, wp.y, points[s + 1].x, points[s + 1].y,
                                     points[s + 2].x, points[s + 2].y)
    IN IF Len(points) < 2 THEN [wp |-> wp, segIdx |-> 0, t |-> R(0)]
       ELSE The({[wp |-> wp, segIdx |-> best, t |-> T(best)]
                 : best \in {FirstMin(AsArray([k \in 1..(Len(points) - 1) |-> D(k - 1)])) - 1}})

\* The comparator (a, b) => b.segIdx - a.segIdx || b.t - a.t is negative or zero
\* when a may stay before b
WpKeepsOrder(a, b) ==
    IF b.segIdx # a.segIdx THEN b.segIdx < a.segIdx ELSE RLe(b.t, a.t)

\* Array.prototype.sort is stable: an element is placed after every element
\* that may stay before it
RECURSIVE WpSortInsert(_, _)
WpSortInsert(sorted, e) ==
    IF sorted = <<>> THEN <<e>>
    ELSE IF WpKeepsOrder(Head(sorted), e) THEN <<Head(sorted)>> \o WpSortInsert(Tail(sorted), e)
    ELSE <<e>> \o sorted

RECURSIVE WpSort(_)
WpSort(ws) ==
    IF ws = <<>> THEN <<>>
    ELSE WpSortInsert(WpSort(SubSeq(ws, 1, Len(ws) - 1)), ws[Len(ws)])

WAYPOINT_CLAMP == 5

\* points.splice(at, 0, a, b), at 0-based
Splice2(points, at, a, b) ==
    SubSeq(points, 1, at) \o <<a, b>> \o SubSeq(points, at + 1, Len(points))

\* The loop "for (const { segIdx } of wpWithSeg)" from entry k on: the split
\* coordinate is that of the first sorted waypoint with the same segIdx
RECURSIVE WpSplitFrom(_, _, _)
WpSplitFrom(points, sorted, k) ==
    IF k > Len(sorted) THEN points
    ELSE LET segIdx == sorted[k].segIdx
             p1 == points[segIdx + 1]
             p2 == points[segIdx + 2]
             isHoriz == RLt(RAbs(RSub(p1.y, p2.y)), R(1))
             found == sorted[SetMin({j \in DOMAIN sorted : sorted[j].segIdx = segIdx})].wp
             new ==
                IF isHoriz
                THEN LET minX == RAdd(RMin(p1.x, p2.x), R(WAYPOINT_CLAMP))
                         maxX == RSub(RMax(p1.x, p2.x), R(WAYPOINT_CLAMP))
                     IN Pt(RMax(minX, RMin(maxX, found.x)), p1.y)
                ELSE LET minY == RAdd(RMin(p1.y, p2.y), R(WAYPOINT_CLAMP))
                         maxY == RSub(RMax(p1.y, p2.y), R(WAYPOINT_CLAMP))
                     IN Pt(p1.x, RMax(minY, RMin(maxY, found.y)))
         IN WpSplitFrom(Splice2(points, segIdx + 1, new, new), sorted, k + 1)

\* insertWaypointsIntoPath(...).path
insertWaypointsIntoPath(pathStr, waypoints) ==
    IF Len(waypoints) = 0 THEN pathStr
    ELSE The({The({pointsToPath(WpSplitFrom(points, wpWithSeg, 1))
                   : wpWithSeg \in {WpSort(AsArray([i \in DOMAIN waypoints |->
                                                      WpWithSeg(points, waypoints[i])]))}})
              : points \in {parsePathPoints(pathStr)}})

\* ------------------------------- derived values of the viewer (useMemo)
\* layout: layoutBlocks with the block-position overrides applied
Layout(bs, cs, bpo) ==
    The({AsArray([i \in DOMAIN baseLayout |->
            LET lb == baseLayout[i]
                id == lb.block.id
            IN [block |-> lb.block,
                x |-> IF id \in DOMAIN bpo THEN bpo[id].x ELSE R(lb.x),
                y |-> IF id \in DOMAIN bpo THEN bpo[id].y ELSE R(lb.y),
                width |-> R(lb.width),
                height |-> R(lb.height)]])
         : baseLayout \in {layoutBlocks(bs, cs)}})

\* Block ids are strings.  The model writes an id as a number: a number below
\* 10 stands for the id that is its numeral ("1", "2", ...), and 10 * a + b
\* stands for the id "a<->b", an id that holds the text the pair key is joined
\* with.
IdText(id) ==
    IF id < 10 THEN ToString(id)
    ELSE ToString(id \div 10) \o "<->" \o ToString(id % 10)

\* The default order of Array.prototype.sort on two ids: the order of their
\* texts, character by character, a proper prefix first
IdSortsBefore(a, b) ==
    LET LeadOf(id) == IF id < 10 THEN id ELSE id \div 10
    IN IF LeadOf(a) # LeadOf(b) THEN LeadOf(a) < LeadOf(b)
       ELSE IF a < 10 THEN b >= 10
       ELSE b >= 10 /\ a % 10 < b % 10

\* The key of pairGroups: [from_block, to_block].sort().join('<->')
PairKey(c) ==
    IF IdSortsBefore(c.to_block, c.from_block)
    THEN IdText(c.to_block) \o "<->" \o IdText(c.from_block)
    ELSE IdText(c.from_block) \o "<->" \o IdText(c.to_block)

\* connectionOffsets.get(i) for connection i (0-based)
ConnectionOffset(cs, i) ==
    LET indices == {j \in 0..(Len(cs) - 1) : PairKey(cs[j + 1]) = PairKey(cs[i + 1])}
        groupSize == Cardinality(indices)
        positionInGroup == Cardinality({j \in indices : j < i})
    IN IF groupSize = 1 THEN R(0)
       ELSE RMul(RSub(R(positionInGroup), Rat(groupSize - 1, 2)), R(CONNECTION_SPREAD))

\* The base path of connection i (0-based): None when an endpoint block is missing
PathOn(lay, cs, i) ==
    The({IF ends.fromLb = None \/ ends.toLb = None THEN None
         ELSE The({Some(computeOrthogonalPath(a.fromPort, a.toPort, lay, a.sameGroup,
                                              a.vertOffset))
                   : a \in {[fromPort |-> getPortPosition(Get(ends.fromLb),
                                                          cs[i + 1].signal_name, "output"),
                             toPort |-> getPortPosition(Get(ends.toLb),
                                                        cs[i + 1].signal_name, "input"),
                             sameGroup |-> areBlocksInSameGroup(cs[i + 1].from_block,
                                                                cs[i + 1].to_block, lay),
                             vertOffset |-> ConnectionOffset(cs, i)]}})
         : ends \in {[fromLb |-> LayoutMapGet(lay, cs[i + 1].from_block),
                      toLb |-> LayoutMapGet(lay, cs[i + 1].to_block)]}})

BasePath(bs, cs, bpo, i) == The({PathOn(lay, cs, i) : lay \in {Layout(bs, cs, bpo)}})

MapGetOr(m, k, default) == IF k \in DOMAIN m THEN m[k] ELSE default

\* computedPaths[i]: None, or the rendered path, the path with waypoints only,
\* and the points of the rendered path
RenderedPath(base, pointOvs, wps) ==
    IF base = None THEN None
    ELSE The({The({Some([path |-> path, wpPath |-> wpPath, points |-> parsePathPoints(path)])
                   : path \in {IF Len(pointOvs) > 0 THEN applyPointOverrides(wpPath, pointOvs)
                               ELSE wpPath}})
              : wpPath \in {insertWaypointsIntoPath(Get(base), wps)}})

ComputedPath(bs, cs, bpo, cpo, cw, i) ==
    The({RenderedPath(base, MapGetOr(cpo, i, <<>>), MapGetOr(cw, i, <<>>))
         : base \in {BasePath(bs, cs, bpo, i)}})

\* computedPaths[i] for the connection indices i = 0 .. connections.length - 1
computedPathsOn(lay, cs, cpo, cw) ==
    The({[i \in 0..(Len(cs) - 1) |-> arr[i + 1]]
         : arr \in {AsArray([k \in DOMAIN cs |->
                        RenderedPath(PathOn(lay, cs, k - 1),
                                     MapGetOr(cpo, k - 1, <<>>),
                                     MapGetOr(cw, k - 1, <<>>))])}})

\* The render that follows every state update: each useMemo keeps its value
\* while its dependencies are unchanged and is computed again otherwise; an
\* unmounted component has no memoised values.  Nothing in the component writes
\* to the console: the memo of the paths returns null for a connection without
\* an endpoint block and goes on
Render ==
    /\ UNCHANGED warnings
    /\ IF ~mounted' THEN layout' = <<>> /\ computedPaths' = <<>>
       ELSE IF mounted /\ <<blocks, connections, overrideVars>>' = <<blocks, connections, overrideVars>>
       THEN UNCHANGED memoVars
       ELSE \E lay \in {IF mounted /\ <<blocks, connections, blockPositionOverrides>>'
                                  = <<blocks, connections, blockPositionOverrides>>
                     THEN layout
                     ELSE Layout(blocks', connections', blockPositionOverrides')} :
            /\ layout' = lay
            /\ computedPaths' = computedPathsOn(lay, connections', connPointOverrides',
                                                connWaypoints')

\* The rendering surface: the svg is drawn at translate(pan) scale(zoom) inside
\* the canvas, whose top-left corner is the client origin; a client point maps
\* to svg coordinates as in the handlers
\* ((clientX - svgRect.left) * vb.width / svgRect.width).
SvgPoint(p) ==
    Pt(RDiv(RSub(R(p.x), pan.x), zoom), RDiv(RSub(R(p.y), pan.y), zoom))

\* ------------------------------------------------ persistence bridge
SAVE_DEBOUNCE_MS == 500
SAVED_INDICATOR_MS == 2000

\* Time advances in steps of TickMs
TickMs == 250

DesignIds == {"d1", "d2"}

\* [...map.entries()]: the list of [key, value] pairs (here in key order)
RECURSIVE EntriesOf(_, _)
EntriesOf(m, keys) ==
    IF keys = {} THEN <<>>
    ELSE LET k == SetMin(keys) IN <<<<k, m[k]>>>> \o EntriesOf(m, keys \ {k})

MapEntries(m) == EntriesOf(m, DOMAIN m)

\* new Map(list): the last pair of a key wins
MapFromEntries(es) ==
    [k \in {es[i][1] : i \in DOMAIN es} |->
        es[SetMax({i \in DOMAIN es : es[i][1] = k})][2]]

\* What localStorage holds under a layout key: nothing, a text that is not
\* JSON, the JSON text of an object without the three lists ("{}"), or the JSON
\* text of a LayoutData.
StoredAbsent ==
    [kind |-> "absent", blockPositions |-> <<>>, pointOverrides |-> <<>>, waypoints |-> <<>>]
StoredNotJson == [StoredAbsent EXCEPT !.kind = "notjson"]
StoredNoLists == [StoredAbsent EXCEPT !.kind = "noLists"]

\* JSON.stringify(data) of saveLayout
StringifyLayout(data) ==
    [kind |-> "layout", blockPositions |-> data.blockPositions,
     pointOverrides |-> data.pointOverrides, waypoints |-> data.waypoints]

\* loadLayout: null when the key is absent or the text does not parse; otherwise
\* whatever JSON.parse returns, cast to LayoutData without a check
loadLayout(store, id) ==
    LET raw == store[id]
    IN IF raw.kind \in {"absent", "notjson"} THEN None
       ELSE Some([lists |-> raw.kind = "layout",
                  blockPositions |-> raw.blockPositions,
                  pointOverrides |-> raw.pointOverrides,
                  waypoints |-> raw.waypoints])

\* saveLayout: localStorage.setItem(getLayoutKey(designId), JSON.stringify(data))
saveLayout(store, id, data) == [store EXCEPT ![id] = StringifyLayout(data)]

\* The load effect (on mount, and when designId changes), given the current
\* override maps: the maps after it, whether it set any of them, and whether it
\* threw (reading .length of a list that the parsed value does not have).
LoadEffect(d, store, bpo, cpo, cw) ==
    LET same == [threw |-> FALSE, changed |-> FALSE, bpo |-> bpo, cpo |-> cpo, cw |-> cw]
    IN IF d = None THEN same
       ELSE LET saved == loadLayout(store, Get(d))
            IN IF saved = None THEN same
               ELSE IF ~Get(saved).lists THEN [same EXCEPT !.threw = TRUE]
               ELSE LET sv == Get(saved)
                    IN [threw |-> FALSE,
                        changed |-> \/ Len(sv.blockPositions) > 0
                                    \/ Len(sv.pointOverrides) > 0
                                    \/ Len(sv.waypoints) > 0,
                        bpo |-> IF Len(sv.blockPositions) > 0
                                THEN MapFromEntries(sv.blockPositions) ELSE bpo,
                        cpo |-> IF Len(sv.pointOverrides) > 0
                                THEN MapFromEntries(sv.pointOverrides) ELSE cpo,
                        cw |-> IF Len(sv.waypoints) > 0
                               THEN MapFromEntries(sv.waypoints) ELSE cw]

\* setTimeout returns an id that no pending timer has
FreshTimerId(tm, ref) ==
    LET used == {t.id : t \in tm} \cup (IF ref = None THEN {} ELSE {Get(ref)})
    IN SetMin({n \in 1..(Cardinality(used) + 1) : n \notin used})

\* A pending timer: its callback closes over the values of the render that set
\* it; `unmounted` tells that the component that set it is gone
SaveTimer(id, d, bpo, cpo, cw) ==
    [id |-> id, kind |-> "save", remaining |-> SAVE_DEBOUNCE_MS, designId |-> d,
     blockPositionOverrides |-> bpo, connPointOverrides |-> cpo, connWaypoints |-> cw,
     unmounted |-> FALSE]

SavedTimer(id) ==
    [id |-> id, kind |-> "saved", remaining |-> SAVED_INDICATOR_MS, designId |-> None,
     blockPositionOverrides |-> EmptyMap, connPointOverrides |-> EmptyMap,
     connWaypoints |-> EmptyMap, unmounted |-> FALSE]

\* clearTimeout(layoutSaveTimer.current)
ClearSaveTimer(tm, ref) ==
    IF ref = None THEN tm ELSE {t \in tm : t.id # Get(ref)}

\* A save effect that schedules its write without cancelling the pending one
SaveEffectNoCancel(tm, ref, d, bpo, cpo, cw) ==
    IF d = None THEN [timers |-> tm, ref |-> ref]
    ELSE IF bpo = EmptyMap /\ cpo = EmptyMap /\ cw = EmptyMap
         THEN [timers |-> tm, ref |-> ref]
    ELSE LET id == FreshTimerId(tm, ref)
         IN [timers |-> tm \cup {SaveTimer(id, d, bpo, cpo, cw)}, ref |-> Some(id)]

\* The save effect, run after a render in which designId or one of the three
\* override maps changed: the cleanup of the previous run, then the effect.
\* Gives the pending timers and layoutSaveTimer.current afterwards.
SaveEffect(tm, ref, d, bpo, cpo, cw) ==
    LET cleared == ClearSaveTimer(tm, ref)
    IN IF d = None THEN [timers |-> cleared, ref |-> ref]
       ELSE IF bpo = EmptyMap /\ cpo = EmptyMap /\ cw = EmptyMap
            THEN [timers |-> cleared, ref |-> ref]
       ELSE LET id == FreshTimerId(cleared, ref)
            IN [timers |-> cleared \cup {SaveTimer(id, d, bpo, cpo, cw)},
                ref |-> Some(id)]

\* --------------------------------------------- BlockDiagramViewer
\* The values the component's state and refs are created with
InitialDragStartPos == [blockX |-> R(0), blockY |-> R(0), mouseX |-> 0, mouseY |-> 0]
InitialConnDragStart == [mouseX |-> 0, mouseY |-> 0]
Origin == [x |-> 0, y |-> 0]

ComponentStateInit ==
    /\ zoom = R(1)
    /\ pan = Pt(R(0), R(0))
    /\ dragging = FALSE
    /\ lastPos = Origin
    /\ draggedBlockId = None
    /\ draggedBlockRef = None
    /\ selectedConn = None
    /\ hoveredConn = None
    /\ draggedNodeRef = None
    /\ dragStartPos = InitialDragStartPos
    /\ connDragStart = InitialConnDragStart
    /\ connDragBaseOverrides = <<>>
    /\ layoutSaved = FALSE

NothingLoaded ==
    /\ blockPositionOverrides = EmptyMap
    /\ connPointOverrides = EmptyMap
    /\ connWaypoints = EmptyMap
    /\ layoutSaveTimer = None
    /\ timers = {}
    /\ sinceChange = SAVE_DEBOUNCE_MS

\* The same values for a component that is created (or discarded) in this step,
\* but for the three override maps and the save timer
ComponentStateFresh ==
    /\ zoom' = R(1)
    /\ pan' = Pt(R(0), R(0))
    /\ dragging' = FALSE
    /\ lastPos' = Origin
    /\ draggedBlockId' = None
    /\ draggedBlockRef' = None
    /\ selectedConn' = None
    /\ hoveredConn' = None
    /\ draggedNodeRef' = None
    /\ dragStartPos' = InitialDragStartPos
    /\ connDragStart' = InitialConnDragStart
    /\ connDragBaseOverrides' = <<>>
    /\ layoutSaved' = FALSE

\* The component is gone (unmounted, or torn down by an exception): the cleanup
\* of the save effect clears the pending write timer
TornDown ==
    /\ mounted' = FALSE
    /\ designId' = None
    /\ ComponentStateFresh
    /\ blockPositionOverrides' = EmptyMap
    /\ connPointOverrides' = EmptyMap
    /\ connWaypoints' = EmptyMap
    /\ layoutSaveTimer' = None
    /\ timers' = {[t EXCEPT !.unmounted = TRUE] : t \in ClearSaveTimer(timers, layoutSaveTimer)}
    /\ wpTrip' = None
    /\ UNCHANGED <<blocks, connections, layoutVars, localStorage, sinceChange, inputs>>
    /\ Render

\* First render with designId d, then the load effect and the save effect
Mount(d) ==
    /\ ~mounted
    /\ ~crashed
    /\ inputs < MaxInputs
    /\ lastEvent' = "mount"
    /\ LET r == LoadEffect(d, localStorage, EmptyMap, EmptyMap, EmptyMap)
       IN IF r.threw
          THEN crashed' = TRUE /\ TornDown
          ELSE LET e == SaveEffect(timers, None, d, r.bpo, r.cpo, r.cw)
               IN /\ mounted' = TRUE
                  /\ designId' = d
                  /\ ComponentStateFresh
                  /\ blockPositionOverrides' = r.bpo
                  /\ connPointOverrides' = r.cpo
                  /\ connWaypoints' = r.cw
                  /\ timers' = e.timers
                  /\ layoutSaveTimer' = e.ref
                  /\ sinceChange' = IF r.changed THEN 0 ELSE sinceChange
                  /\ wpTrip' = None
                  /\ inputs' = inputs + 1
                  /\ UNCHANGED <<crashed, blocks, connections, layoutVars, localStorage>>
                  /\ Render

\* The parent re-renders the mounted viewer with another designId: the load
\* effect and the save effect run again
ChangeDesignId(d) ==
    /\ mounted
    /\ d # designId
    /\ inputs < MaxInputs
    /\ lastEvent' = "designId"
    /\ LET r == LoadEffect(d, localStorage, blockPositionOverrides,
                           connPointOverrides, connWaypoints)
       IN IF r.threw
          THEN crashed' = TRUE /\ TornDown
          ELSE LET e == SaveEffect(timers, layoutSaveTimer, d, r.bpo, r.cpo, r.cw)
               IN /\ designId' = d
                  /\ blockPositionOverrides' = r.bpo
                  /\ connPointOverrides' = r.cpo
                  /\ connWaypoints' = r.cw
                  /\ timers' = e.timers
                  /\ layoutSaveTimer' = e.ref
                  /\ sinceChange' = IF r.changed THEN 0 ELSE sinceChange
                  /\ wpTrip' = None
                  /\ UNCHANGED <<mounted, crashed, blocks, connections, layoutVars,
                                 viewVars, dragVars, selectVars, layoutSaved, localStorage>>
                  /\ inputs' = inputs + 1
                  /\ Render

Unmount ==
    /\ mounted
    /\ lastEvent' = "unmount"
    /\ TornDown
    /\ UNCHANGED crashed

\* ---- timers
\* Time passes: a timer that is due fires before time passes again
Tick ==
    /\ timers # {}
    /\ \A t \in timers : t.remaining > 0
    /\ timers' = {[t EXCEPT !.remaining = Max2(0, @ - TickMs)] : t \in timers}
    /\ sinceChange' = Min2(SAVE_DEBOUNCE_MS, sinceChange + TickMs)
    /\ lastEvent' = "tick"
    /\ UNCHANGED <<propVars, layoutVars, mounted, crashed, viewVars, dragVars, overrideVars,
                   selectVars, layoutSaveTimer, layoutSaved, localStorage, wpTrip, inputs>>
    /\ Render

\* The write timer's callback: saveLayout, setLayoutSaved(true), and a second,
\* untracked timer that resets the indicator
SaveTimerFires(t) ==
    /\ t \in timers
    /\ t.kind = "save"
    /\ t.remaining = 0
    /\ localStorage' = saveLayout(localStorage, Get(t.designId),
            [blockPositions |-> MapEntries(t.blockPositionOverrides),
             pointOverrides |-> MapEntries(t.connPointOverrides),
             waypoints |-> MapEntries(t.connWaypoints)])
    /\ layoutSaved' = (IF t.unmounted THEN layoutSaved ELSE TRUE)
    /\ timers' = (timers \ {t}) \cup
                  {[SavedTimer(FreshTimerId(timers, layoutSaveTimer))
                       EXCEPT !.unmounted = t.unmounted]}
    /\ lastEvent' = (IF t.unmounted THEN "timerAfterUnmount" ELSE "saveTimer")
    /\ UNCHANGED <<propVars, layoutVars, mounted, crashed, viewVars, dragVars, overrideVars,
                   selectVars, layoutSaveTimer, sinceChange, wpTrip, inputs>>
    /\ Render

\* The indicator timer's callback: setLayoutSaved(false)
SavedTimerFires(t) ==
    /\ t \in timers
    /\ t.kind = "saved"
    /\ t.remaining = 0
    /\ layoutSaved' = (IF t.unmounted THEN layoutSaved ELSE FALSE)
    /\ timers' = timers \ {t}
    /\ lastEvent' = (IF t.unmounted THEN "timerAfterUnmount" ELSE "savedTimer")
    /\ UNCHANGED <<propVars, layoutVars, mounted, crashed, viewVars, dragVars, overrideVars,
                   selectVars, layoutSaveTimer, localStorage, sinceChange, wpTrip, inputs>>
    /\ Render

\* ---- pointer handlers
HOVER_RADIUS == 12
NODE_GRAB_RADIUS == 25
WAYPOINT_REMOVE_RADIUS == 15
NODE_WAYPOINT_RADIUS == 30
NODE_DRAG_THRESHOLD == 2
BLOCK_DRAG_THRESHOLD == 5

\* A re-render after the override maps were set: the save effect runs again
SetOverrides(bpo, cpo, cw) ==
    /\ blockPositionOverrides' = bpo
    /\ connPointOverrides' = cpo
    /\ connWaypoints' = cw
    /\ \E e \in {SaveEffect(timers, layoutSaveTimer, designId, bpo, cpo, cw)} :
          timers' = e.timers /\ layoutSaveTimer' = e.ref
    /\ sinceChange' = 0

\* A search that finds no path: the index of the event dispatch is kept
NearestPathNone(paths, q) == None

\* The loops over computedPathsRef.current of handleConnMouseDown and
\* handleCanvasMouseMove: the first (connection, segment) at the smallest distance
NearestPath(paths, q) ==
    LET SegsOf(ci) ==
            IF paths[ci] = None THEN <<>>
            ELSE The({AsArray([k \in 1..(Len(pts) - 1) |->
                        [idx |-> ci,
                         distSq |-> pointToSegmentDistSq(q.x, q.y, pts[k].x, pts[k].y,
                                                         pts[k + 1].x, pts[k + 1].y)]])
                      : pts \in {Get(paths[ci]).points}})
    IN The({IF cand = <<>> THEN None
            ELSE Some(cand[FirstMin(AsArray([k \in DOMAIN cand |-> cand[k].distSq]))])
            : cand \in {Flatten([k \in 1..Cardinality(DOMAIN paths) |-> SegsOf(k - 1)])}})

\* The interior point of `pts` nearest to q (lowest index on a tie), 0 if none
NearestNode(pts, q) ==
    IF Len(pts) < 3 THEN 0
    ELSE FirstMin(AsArray([k \in 1..(Len(pts) - 2) |->
                    DistSq(pts[k + 1].x, pts[k + 1].y, q.x, q.y)]))

\* existingWps.findIndex(wp => Math.hypot(wp.x - q.x, wp.y - q.y) < radius),
\* -1 when there is none
FindWaypointNear(wps, q, radius) ==
    LET near == {k \in DOMAIN wps :
                    RLt(DistSq(wps[k].x, wps[k].y, q.x, q.y), R(radius * radius))}
    IN IF near = {} THEN -1 ELSE SetMin(near) - 1

\* ---- event dispatch: the element under the pointer receives the event
HIT_STROKE_WIDTH == 14
NODE_HIT_RADIUS == 12

\* q is on the rectangle of the block drawn at position k
OnBlock(lay, k, q) ==
    /\ k \in DOMAIN lay
    /\ RLe(lay[k].x, q.x) /\ RLe(q.x, RAdd(lay[k].x, lay[k].width))
    /\ RLe(lay[k].y, q.y) /\ RLe(q.y, RAdd(lay[k].y, lay[k].height))

\* q is on the transparent stroke drawn along the path of connection i
OnConn(paths, i, q) ==
    /\ i \in DOMAIN paths
    /\ paths[i] # None
    /\ \E pts \in {Get(paths[i]).points} :
          \E k \in 1..(Len(pts) - 1) :
             RLe(pointToSegmentDistSq(q.x, q.y, pts[k].x, pts[k].y,
                                      pts[k + 1].x, pts[k + 1].y),
                 Rat(HIT_STROKE_WIDTH * HIT_STROKE_WIDTH, 4))

\* The node handles of connection i are drawn
NodesDrawn(paths, i) ==
    /\ selectedConn = Some(i) \/ hoveredConn = Some(i)
    /\ i \in DOMAIN paths
    /\ paths[i] # None
    /\ Len(Get(paths[i]).points) >= 3

\* q is on the handle of interior point pointIdx of connection i
OnNode(paths, i, pointIdx, q) ==
    /\ NodesDrawn(paths, i)
    /\ pointIdx \in 1..(Len(Get(paths[i]).points) - 2)
    /\ \E pt \in {Get(paths[i]).points[pointIdx + 1]} :
          RLe(DistSq(pt.x, pt.y, q.x, q.y), R(NODE_HIT_RADIUS * NODE_HIT_RADIUS))

\* q is on no block, connection or node handle
OnCanvas(lay, paths, q) ==
    /\ \A k \in DOMAIN lay : ~OnBlock(lay, k, q)
    /\ \A i \in DOMAIN paths : ~OnConn(paths, i, q)
    /\ \A i \in DOMAIN paths :
          paths[i] # None => \A pi \in 1..(Len(Get(paths[i]).points) - 2) :
                                ~OnNode(paths, i, pi, q)

\* Pointer-down on the empty canvas
handleMouseDown(p) ==
    /\ mounted
    /\ OnCanvas(layout, computedPaths, SvgPoint(p))
    /\ inputs < MaxInputs
    /\ inputs' = inputs + 1
    /\ selectedConn' = None
    /\ dragging' = TRUE
    /\ lastPos' = p
    /\ lastEvent' = "pointer"
    /\ UNCHANGED <<propVars, layoutVars, mounted, crashed, zoom, pan, draggedBlockId,
                   draggedBlockRef, overrideVars, hoveredConn, draggedNodeRef, dragStartPos,
                   connDragStart, connDragBaseOverrides, saveVars, sinceChange, wpTrip>>
    /\ Render

\* Pointer-down on the block drawn at position k of the layout
handleBlockMouseDown(k, p) ==
    /\ mounted
    /\ inputs < MaxInputs
    /\ inputs' = inputs + 1
    /\ \E lay \in {layout} :
       /\ OnBlock(lay, k, SvgPoint(p))
       /\ LET lb == lay[k]
          IN
          /\ draggedBlockRef' = Some(lb.block.id)
          /\ draggedBlockId' = Some(lb.block.id)
          /\ dragStartPos' = [blockX |-> lb.x, blockY |-> lb.y, mouseX |-> p.x, mouseY |-> p.y]
    /\ lastEvent' = "pointer"
    /\ UNCHANGED <<propVars, layoutVars, mounted, crashed, viewVars, dragging, lastPos,
                   overrideVars, selectVars, draggedNodeRef, connDragStart,
                   connDragBaseOverrides, saveVars, sinceChange, wpTrip>>
    /\ Render

\* Pointer-down on the drawing of connection i (0-based)
handleConnMouseDown(i, p) ==
    /\ mounted
    /\ inputs < MaxInputs
    /\ inputs' = inputs + 1
    /\ \E paths \in {computedPaths}, q \in {SvgPoint(p)} :
        /\ OnConn(paths, i, q)
        /\ \E near \in {NearestPath(paths, q)} :
           LET targetIdx == IF near = None THEN i ELSE Get(near).idx
               cp == paths[targetIdx]
               pts == Get(cp).points
               nearestNodeIdx == NearestNode(pts, q)
               grabs == /\ cp # None
                        /\ Len(pts) >= 3
                        /\ RLt(DistSq(pts[nearestNodeIdx + 1].x, pts[nearestNodeIdx + 1].y,
                                      q.x, q.y),
                               R(NODE_GRAB_RADIUS * NODE_GRAB_RADIUS))
           IN
          /\ IF grabs
             THEN /\ draggedNodeRef' = Some([connIdx |-> targetIdx, pointIdx |-> nearestNodeIdx])
                  /\ connDragStart' = [mouseX |-> p.x, mouseY |-> p.y]
                  /\ connDragBaseOverrides' = MapGetOr(connPointOverrides, targetIdx, <<>>)
             ELSE UNCHANGED <<draggedNodeRef, connDragStart, connDragBaseOverrides>>
          /\ selectedConn' = Some(targetIdx)
          /\ hoveredConn' = Some(targetIdx)
    /\ lastEvent' = "pointer"
    /\ UNCHANGED <<propVars, layoutVars, mounted, crashed, viewVars, dragging, lastPos,
                   draggedBlockId, draggedBlockRef, overrideVars, dragStartPos, saveVars,
                   sinceChange, wpTrip>>
    /\ Render

\* Pointer-down on the handle of interior point pointIdx of connection i
handleNodeMouseDown(i, pointIdx, p) ==
    /\ mounted
    /\ inputs < MaxInputs
    /\ inputs' = inputs + 1
    /\ selectedConn = Some(i) \/ hoveredConn = Some(i)
    /\ \E paths \in {computedPaths} : OnNode(paths, i, pointIdx, SvgPoint(p))
    /\ draggedNodeRef' = Some([connIdx |-> i, pointIdx |-> pointIdx])
    /\ connDragStart' = [mouseX |-> p.x, mouseY |-> p.y]
    /\ connDragBaseOverrides' = MapGetOr(connPointOverrides, i, <<>>)
    /\ selectedConn' = Some(i)
    /\ lastEvent' = "pointer"
    /\ UNCHANGED <<propVars, layoutVars, mounted, crashed, viewVars, dragging, lastPos,
                   draggedBlockId, draggedBlockRef, overrideVars, hoveredConn, dragStartPos,
                   saveVars, sinceChange, wpTrip>>
    /\ Render

\* ---- waypoints
\* A Map created empty instead of copied from the previous one
MapSetFresh(m, k, v) == [x \in {k} |-> v]

\* const updated = new Map(prev); updated.set(k, v)
MapSet(m, k, v) == [x \in (DOMAIN m) \cup {k} |-> IF x = k THEN v ELSE m[x]]
MapDelete(m, k) == [x \in (DOMAIN m) \ {k} |-> m[x]]

\* arr.splice(at, count), at 0-based
SpliceOut(arr, at, count) ==
    SubSeq(arr, 1, at) \o SubSeq(arr, at + count + 1, Len(arr))

\* while (overrides.length < n) overrides.push({ dx: 0, dy: 0 })
PadTo(overrides, n) ==
    overrides \o [k \in 1..Max2(0, n - Len(overrides)) |-> ZeroOv]

\* The two state updates of removeWaypoint(connIdx, wpIdx)
removeWaypoint(connIdx, wpIdx) ==
    LET existingWps == MapGetOr(connWaypoints, connIdx, <<>>)
        wps == SpliceOut(existingWps, wpIdx, 1)
        overrides == MapGetOr(connPointOverrides, connIdx, <<>>)
        left == The({IF base = None THEN overrides
                     ELSE The({LET bestSeg == NearestSegment(basePoints,
                                                  existingWps[wpIdx + 1].x,
                                                  existingWps[wpIdx + 1].y)
                                   removeAt == bestSeg + wpIdx * 2
                               IN IF removeAt < Len(overrides)
                                  THEN SpliceOut(overrides, removeAt,
                                                 Min2(2, Len(overrides) - removeAt))
                                  ELSE overrides
                               : basePoints \in {parsePathPoints(Get(base))}})
                     : base \in {BasePath(blocks, connections, blockPositionOverrides,
                                          connIdx)}})
    IN [cw |-> IF Len(wps) = 0 THEN MapDelete(connWaypoints, connIdx)
               ELSE MapSet(connWaypoints, connIdx, wps),
        cpo |-> IF Len(left) = 0 THEN MapDelete(connPointOverrides, connIdx)
                ELSE MapSet(connPointOverrides, connIdx, left)]

\* What the history variable remembers of an insertion
TripInserted(paths, connIdx) ==
    Some([connIdx |-> connIdx,
          wpIdx |-> Len(MapGetOr(connWaypoints, connIdx, <<>>)),
          path |-> Get(paths[connIdx]).path,
          ovLen |-> Len(MapGetOr(connPointOverrides, connIdx, <<>>)),
          stage |-> "inserted"])

TripRemoved(connIdx, wpIdx) ==
    IF /\ wpTrip # None
       /\ Get(wpTrip).stage = "inserted"
       /\ Get(wpTrip).connIdx = connIdx
       /\ Get(wpTrip).wpIdx = wpIdx
    THEN Some([Get(wpTrip) EXCEPT !.stage = "removed"])
    ELSE None

\* The point-override array after an insertion whose two entries are pushed
\* at the end
InsertedOverridesAppended(connIdx, q, existingWps) ==
    The({IF base = None THEN MapGetOr(connPointOverrides, connIdx, <<>>)
         ELSE The({PadTo(MapGetOr(connPointOverrides, connIdx, <<>>), Len(expandedPts))
                   : expandedPts \in {parsePathPoints(
                                         insertWaypointsIntoPath(Get(base), existingWps))}})
         : base \in {BasePath(blocks, connections, blockPositionOverrides, connIdx)}})

\* The point-override array of handleConnDoubleClick after an insertion at q
InsertedOverrides(connIdx, q, existingWps) ==
    The({IF base = None THEN MapGetOr(connPointOverrides, connIdx, <<>>)
         ELSE The({LET padded == PadTo(MapGetOr(connPointOverrides, connIdx, <<>>),
                                       Len(expandedPts) - 2)
                       bestSeg == NearestSegment(expandedPts, q.x, q.y)
                   IN Splice2(padded, Min2(bestSeg, Len(padded)), ZeroOv, ZeroOv)
                   : expandedPts \in {parsePathPoints(
                                         insertWaypointsIntoPath(Get(base), existingWps))}})
         : base \in {BasePath(blocks, connections, blockPositionOverrides, connIdx)}})

\* Double-click on the drawing of connection connIdx
handleConnDoubleClick(connIdx, p) ==
    /\ mounted
    /\ inputs < MaxInputs
    /\ inputs' = inputs + 1
    /\ \E paths \in {computedPaths}, q \in {SvgPoint(p)} :
        /\ OnConn(paths, connIdx, q) \/ \E pi \in 1..MaxNodes : OnNode(paths, connIdx, pi, q)
        /\ LET existingWps == MapGetOr(connWaypoints, connIdx, <<>>)
               removeIdx == FindWaypointNear(existingWps, q, WAYPOINT_REMOVE_RADIUS)
           IN IF removeIdx >= 0
              THEN \E r \in {removeWaypoint(connIdx, removeIdx)} :
                      /\ SetOverrides(blockPositionOverrides, r.cpo, r.cw)
                      /\ wpTrip' = TripRemoved(connIdx, removeIdx)
              ELSE \E overrides \in {InsertedOverrides(connIdx, q, existingWps)} :
                      /\ SetOverrides(blockPositionOverrides,
                                      MapSet(connPointOverrides, connIdx, overrides),
                                      MapSet(connWaypoints, connIdx, existingWps \o <<q>>))
                      /\ wpTrip' = TripInserted(paths, connIdx)
    /\ lastEvent' = "pointer"
    /\ UNCHANGED <<propVars, layoutVars, mounted, crashed, viewVars, dragVars, selectVars,
                   draggedNodeRef, dragStartPos, connDragStart, connDragBaseOverrides,
                   layoutSaved, localStorage>>
    /\ Render

\* Context menu on the handle of interior point pointIdx of connection i: removes
\* the first waypoint within NODE_WAYPOINT_RADIUS of that point, if any
handleNodeContextMenu(i, pointIdx, p) ==
    /\ mounted
    /\ inputs < MaxInputs
    /\ inputs' = inputs + 1
    /\ selectedConn = Some(i) \/ hoveredConn = Some(i)
    /\ \E paths \in {computedPaths} :
        /\ OnNode(paths, i, pointIdx, SvgPoint(p))
        /\ \E nearWpIdx \in {FindWaypointNear(MapGetOr(connWaypoints, i, <<>>),
                                              Get(paths[i]).points[pointIdx + 1],
                                              NODE_WAYPOINT_RADIUS)} :
            /\ nearWpIdx >= 0
            /\ \E r \in {removeWaypoint(i, nearWpIdx)} :
                  /\ SetOverrides(blockPositionOverrides, r.cpo, r.cw)
                  /\ wpTrip' = TripRemoved(i, nearWpIdx)
    /\ lastEvent' = "pointer"
    /\ UNCHANGED <<propVars, layoutVars, mounted, crashed, viewVars, dragVars, selectVars,
                   draggedNodeRef, dragStartPos, connDragStart, connDragBaseOverrides,
                   layoutSaved, localStorage>>
    /\ Render

\* ---- pointer move and release
\* The dragged block's position without the clamp at 0
DraggedBlockPositionUnclamped(start, rawDx, rawDy, z) ==
    Pt(RAdd(start.blockX, RDiv(R(rawDx), z)), RAdd(start.blockY, RDiv(R(rawDy), z)))

\* { x: Math.max(0, dragStartPos.current.blockX + dx),
\*   y: Math.max(0, dragStartPos.current.blockY + dy) } with dx = rawDx / zoom
DraggedBlockPosition(start, rawDx, rawDy, z) ==
    LET dx == RDiv(R(rawDx), z)
        dy == RDiv(R(rawDy), z)
    IN Pt(RMax(R(0), RAdd(start.blockX, dx)), RMax(R(0), RAdd(start.blockY, dy)))

\* The array of a node drag whose moved entry forgets the snapshot
DraggedNodeOverridesFromZero(snapshot, ovIdx, rawDx, rawDy, z) ==
    [PadTo(snapshot, ovIdx + 1) EXCEPT ![ovIdx + 1] =
        [dx |-> RDiv(R(rawDx), z), dy |-> RDiv(R(rawDy), z)]]

\* The array set by a node drag: a copy of connDragBaseOverrides.current,
\* padded up to the dragged point, whose entry ovIdx is base + (dx, dy)
DraggedNodeOverrides(snapshot, ovIdx, rawDx, rawDy, z) ==
    LET dx == RDiv(R(rawDx), z)
        dy == RDiv(R(rawDy), z)
        base == IF ovIdx + 1 <= Len(snapshot) THEN snapshot[ovIdx + 1] ELSE ZeroOv
    IN [PadTo(snapshot, ovIdx + 1) EXCEPT ![ovIdx + 1] =
           [dx |-> RAdd(base.dx, dx), dy |-> RAdd(base.dy, dy)]]

handleCanvasMouseMove(p) ==
    /\ mounted
    /\ lastEvent' = "pointer"
    /\ IF draggedNodeRef # None
       THEN \* node drag
            LET rawDx == p.x - connDragStart.mouseX
                rawDy == p.y - connDragStart.mouseY
                connIdx == Get(draggedNodeRef).connIdx
                ovIdx == Get(draggedNodeRef).pointIdx - 1
                overrides == DraggedNodeOverrides(connDragBaseOverrides, ovIdx, rawDx, rawDy,
                                                  zoom)
            IN IF Abs(rawDx) < NODE_DRAG_THRESHOLD /\ Abs(rawDy) < NODE_DRAG_THRESHOLD
               THEN UNCHANGED <<overrideVars, saveVars, sinceChange, wpTrip, viewVars,
                                hoveredConn, lastPos>>
               ELSE /\ SetOverrides(blockPositionOverrides,
                                    MapSet(connPointOverrides, connIdx, overrides),
                                    connWaypoints)
                    /\ wpTrip' = None
                    /\ UNCHANGED <<viewVars, hoveredConn, lastPos, layoutSaved, localStorage>>
       ELSE IF draggedBlockRef # None
       THEN \* block drag
            LET rawDx == p.x - dragStartPos.mouseX
                rawDy == p.y - dragStartPos.mouseY
                pos == DraggedBlockPosition(dragStartPos, rawDx, rawDy, zoom)
            IN IF Abs(rawDx) < BLOCK_DRAG_THRESHOLD /\ Abs(rawDy) < BLOCK_DRAG_THRESHOLD
               THEN UNCHANGED <<overrideVars, saveVars, sinceChange, wpTrip, viewVars,
                                hoveredConn, lastPos>>
               ELSE /\ SetOverrides(MapSet(blockPositionOverrides, Get(draggedBlockRef), pos),
                                    connPointOverrides, connWaypoints)
                    /\ wpTrip' = None
                    /\ UNCHANGED <<viewVars, hoveredConn, lastPos, layoutSaved, localStorage>>
       ELSE IF ~dragging
       THEN \* hover detection
            \E near \in {The({NearestPath(paths, q)
                                : paths \in {computedPaths}, q \in {SvgPoint(p)}})} :
               /\ hoveredConn' = IF near # None
                                    /\ RLt(Get(near).distSq, R(HOVER_RADIUS * HOVER_RADIUS))
                                 THEN Some(Get(near).idx) ELSE None
               /\ UNCHANGED <<overrideVars, saveVars, sinceChange, wpTrip, viewVars, lastPos>>
       ELSE \* canvas pan
            LET newPan == Pt(RAdd(pan.x, R(p.x - lastPos.x)), RAdd(pan.y, R(p.y - lastPos.y)))
            IN /\ pan' = newPan
               /\ lastPos' = p
               /\ UNCHANGED <<overrideVars, saveVars, sinceChange, wpTrip, zoom, hoveredConn>>
    /\ UNCHANGED <<propVars, layoutVars, mounted, crashed, dragging, draggedBlockId,
                   draggedBlockRef, selectedConn, draggedNodeRef, dragStartPos, connDragStart,
                   connDragBaseOverrides, inputs>>
    /\ Render

\* A pointer-up that leaves the dragged node in place
handleCanvasMouseUpKeepsNode ==
    /\ mounted
    /\ draggedBlockRef' = None
    /\ draggedBlockId' = None
    /\ dragging' = FALSE
    /\ lastEvent' = "pointer"
    /\ UNCHANGED <<propVars, layoutVars, mounted, crashed, viewVars, lastPos, overrideVars,
                   selectVars, draggedNodeRef, dragStartPos, connDragStart,
                   connDragBaseOverrides, saveVars, sinceChange, wpTrip, inputs>>
    /\ Render

\* Pointer-up on the canvas, and the pointer leaving the canvas
handleCanvasMouseUp ==
    /\ mounted
    /\ draggedBlockRef' = None
    /\ draggedNodeRef' = None
    /\ draggedBlockId' = None
    /\ dragging' = FALSE
    /\ lastEvent' = "pointer"
    /\ UNCHANGED <<propVars, layoutVars, mounted, crashed, viewVars, lastPos, overrideVars,
                   selectVars, dragStartPos, connDragStart, connDragBaseOverrides, saveVars,
                   sinceChange, wpTrip, inputs>>
    /\ Render

\* ---- toolbar
MAX_ZOOM == 5
ZOOM_STEP == Rat(5, 4)
MIN_ZOOM == Rat(1, 5)

ZoomIn ==
    /\ mounted
    /\ inputs < MaxInputs
    /\ inputs' = inputs + 1
    /\ zoom' = RMin(RMul(zoom, ZOOM_STEP), R(MAX_ZOOM))
    /\ lastEvent' = "toolbar"
    /\ UNCHANGED <<propVars, layoutVars, mounted, crashed, pan, dragVars, overrideVars,
                   selectVars, draggedNodeRef, dragStartPos, connDragStart,
                   connDragBaseOverrides, saveVars, sinceChange, wpTrip>>
    /\ Render

ZoomOut ==
    /\ mounted
    /\ inputs < MaxInputs
    /\ inputs' = inputs + 1
    /\ zoom' = RMax(RDiv(zoom, ZOOM_STEP), MIN_ZOOM)
    /\ lastEvent' = "toolbar"
    /\ UNCHANGED <<propVars, layoutVars, mounted, crashed, pan, dragVars, overrideVars,
                   selectVars, draggedNodeRef, dragStartPos, connDragStart,
                   connDragBaseOverrides, saveVars, sinceChange, wpTrip>>
    /\ Render

handleReset ==
    /\ mounted
    /\ zoom' = R(1)
    /\ pan' = Pt(R(0), R(0))
    /\ lastEvent' = "toolbar"
    /\ UNCHANGED <<propVars, layoutVars, mounted, crashed, dragVars, overrideVars,
                   selectVars, draggedNodeRef, dragStartPos, connDragStart,
                   connDragBaseOverrides, saveVars, sinceChange, wpTrip, inputs>>
    /\ Render

\* ---- the wheel listener of the canvas
\* delta = -e.deltaY * 0.01
WHEEL_ZOOM_RATE == Rat(1, 100)

\* The zoom of a wheel event without the clamp to [0.2, 5]
WheelZoomUnclamped(oldZoom, deltaY) ==
    RMul(oldZoom, RAdd(R(1), RMul(R(-deltaY), WHEEL_ZOOM_RATE)))

\* newZoom = Math.min(Math.max(oldZoom * (1 + delta), 0.2), 5)
WheelZoom(oldZoom, deltaY) ==
    RMin(RMax(RMul(oldZoom, RAdd(R(1), RMul(R(-deltaY), WHEEL_ZOOM_RATE))), MIN_ZOOM),
         R(MAX_ZOOM))

\* The pan of a wheel zoom that leaves the pan as it is
WheelPanKept(m, oldPan, oldZoom, newZoom) == oldPan

\* newPanX / newPanY: the content point under the mouse position m (relative
\* to the canvas) stays under it
WheelPan(m, oldPan, oldZoom, newZoom) ==
    LET contentX == RDiv(RSub(R(m.x), oldPan.x), oldZoom)
        contentY == RDiv(RSub(R(m.y), oldPan.y), oldZoom)
    IN Pt(RSub(R(m.x), RMul(contentX, newZoom)), RSub(R(m.y), RMul(contentY, newZoom)))

\* A wheel event at client position p: with ctrlKey a zoom anchored at p,
\* without it a pan.  zoomRef.current and panRef.current are the zoom and pan
\* of the last render.
onWheel(ctrlKey, deltaX, deltaY, p) ==
    /\ mounted
    /\ inputs < MaxInputs
    /\ inputs' = inputs + 1
    /\ IF ctrlKey
       THEN \E newZoom \in {WheelZoom(zoom, deltaY)} :
               /\ zoom' = newZoom
               /\ pan' = WheelPan(p, pan, zoom, newZoom)
       ELSE /\ pan' = Pt(RSub(pan.x, R(deltaX)), RSub(pan.y, R(deltaY)))
            /\ UNCHANGED zoom
    /\ lastEvent' = "wheel"
    /\ UNCHANGED <<propVars, layoutVars, mounted, crashed, dragVars, overrideVars,
                   selectVars, saveVars, sinceChange, wpTrip>>
    /\ Render

\* ------------------------------------- layoutBlocks on bounded inputs
\* Blocks have unique ids (their position); host_hardware is absent/empty ("")
\* or a name, which may be the key that layoutBlocks gives a block without one;
\* a connection may name a block that does not exist.
HostHardwareValues == {"", "H1", "H2", "__solo_0"}
BlockIds == 1..MaxBlocks

MkBlock(i, hw, ins, outs) ==
    [id |-> i, host_hardware |-> hw, inputs |-> ins, outputs |-> outs]

BlockLists ==
    UNION {{[i \in 1..n |-> MkBlock(i, hw[i], <<"s">>, <<"s">>)] : hw \in [1..n -> HostHardwareValues]} :
              n \in 0..MaxBlocks}

Connection == [from_block : BlockIds, to_block : BlockIds, signal_name : {"s"}]

ConnectionLists == UNION {[1..n -> Connection] : n \in 0..MaxConns}

\* The viewer before it is mounted, with nothing stored
ViewerAbsent ==
    /\ designId = None
    /\ mounted = FALSE
    /\ crashed = FALSE
    /\ ComponentStateInit
    /\ NothingLoaded
    /\ layout = <<>>
    /\ computedPaths = <<>>
    /\ warnings = <<>>
    /\ localStorage = [d \in DesignIds |-> StoredAbsent]
    /\ lastEvent = "init"
    /\ wpTrip = None
    /\ inputs = 0

viewerVars == <<designId, mounted, crashed, viewVars, dragVars, overrideVars, selectVars,
                memoVars, saveVars, warnings, histVars>>

InitLayout ==
    /\ blocks \in BlockLists
    /\ connections \in ConnectionLists
    /\ phase = "input"
    /\ groupColumn = <<>>
    /\ blockColumn = <<>>
    /\ layoutOut = <<>>
    /\ rerun = None
    /\ offsetsOut = None
    /\ channel = None
    /\ ViewerAbsent

\* One call of layoutBlocks(blocks, connections); the columns it assigns on the
\* way are kept beside the rectangles it returns.
RunLayout ==
    /\ phase = "input"
    /\ phase' = "done"
    /\ groupColumn' = GroupColumns(HwGroups(blocks), connections)
    /\ blockColumn' = [g \in DOMAIN HwGroups(blocks) |->
                          BlockColumns(HwGroups(blocks)[g], connections)]
    /\ layoutOut' = layoutBlocks(blocks, connections)
    /\ UNCHANGED <<blocks, connections, rerun, offsetsOut, channel, viewerVars>>

\* A second call of layoutBlocks on the same blocks and connections (the layout
\* memo calls it again whenever an override of a block position changes)
RerunLayout ==
    /\ phase = "done"
    /\ phase' = "rerun"
    /\ rerun' = Some([groupColumn |-> GroupColumns(HwGroups(blocks), connections),
                      blockColumn |-> [g \in DOMAIN HwGroups(blocks) |->
                                          BlockColumns(HwGroups(blocks)[g], connections)],
                      layoutOut |-> layoutBlocks(blocks, connections)])
    /\ UNCHANGED <<blocks, connections, groupColumn, blockColumn, layoutOut, offsetsOut,
                   channel, viewerVars>>

NextLayout == RunLayout \/ RerunLayout

SpecLayout == InitLayout /\ [][NextLayout]_vars

\* ------------------------------------------ the viewer on a diagram
\* Three blocks without host_hardware and two connections into block 2; the
\* computed paths are
\*   connection 0: (260,136) (500,136), a straight line
\*   connection 1: (260,294) (380,294) (380,156) (500,156)
ViewerBlocks ==
    <<MkBlock(1, "", <<>>, <<"s">>), MkBlock(2, "", <<"s", "r">>, <<>>),
      MkBlock(3, "", <<>>, <<"r">>)>>

ViewerConnections ==
    <<[from_block |-> 1, to_block |-> 2, signal_name |-> "s"],
      [from_block |-> 3, to_block |-> 2, signal_name |-> "r"]>>

\* Pointer positions (client coordinates): on connection 0, on connection 1
\* four pixels from its second node, 4 pixels to the right of that, and a place
\* on the empty canvas
OnSegment == [x |-> 320, y |-> 136]
AtNode == [x |-> 380, y |-> 160]
Nudged == [x |-> 384, y |-> 160]
Away == [x |-> 400, y |-> 200]
PointerPositions == {OnSegment, AtNode, Nudged, Away}

\* Pointer positions inside block 1 and inside block 3
InBlock1 == [x |-> 100, y |-> 100]
InBlock3 == [x |-> 100, y |-> 300]
PointerTargets == PointerPositions \cup {InBlock1, InBlock3}

\* A position four pixels from InBlock1: closer than the block drag threshold
NearInBlock1 == [x |-> 104, y |-> 100]

\* Where a button is pressed
PressTargets == {OnSegment, AtNode, Away, InBlock1, InBlock3}

\* Where the pointer goes next: anywhere among the targets while nothing is
\* held, and to one of two positions while a node, a block or the canvas is
NodeDragTargets == {Nudged, Away}
BlockDragTargets == {NearInBlock1, InBlock3}
PanTargets == {Nudged, Away}
MoveTargets ==
    IF draggedNodeRef # None /\ draggedBlockRef # None
    THEN NodeDragTargets \cup {NearInBlock1}
    ELSE IF draggedNodeRef # None THEN NodeDragTargets
    ELSE IF draggedBlockRef # None THEN BlockDragTargets
    ELSE IF dragging THEN PanTargets
    ELSE PointerTargets

\* A record saved earlier: block 1 moved
StoredSample ==
    StringifyLayout([blockPositions |-> <<<<1, Pt(R(100), R(110))>>>>,
                     pointOverrides |-> <<>>, waypoints |-> <<>>])
StoredValues == {StoredAbsent, StoredNotJson, StoredNoLists, StoredSample}

ViewerProps ==
    /\ blocks = ViewerBlocks
    /\ connections = ViewerConnections
    /\ phase = "viewer"
    /\ groupColumn = <<>>
    /\ blockColumn = <<>>
    /\ layoutOut = <<>>
    /\ rerun = None
    /\ offsetsOut = None
    /\ channel = None

\* ---- the viewer's life with persistence
Init ==
    /\ ViewerProps
    /\ designId = None
    /\ mounted = FALSE
    /\ crashed = FALSE
    /\ ComponentStateInit
    /\ NothingLoaded
    /\ layout = <<>>
    /\ computedPaths = <<>>
    /\ warnings = <<>>
    /\ localStorage \in [DesignIds -> StoredValues]
    /\ lastEvent = "init"
    /\ wpTrip = None
    /\ inputs = 0

Next ==
    \/ \E d \in DesignIds : Mount(Some(d))
    \/ \E d \in DesignIds : ChangeDesignId(Some(d))
    \/ Unmount
    \/ handleConnDoubleClick(0, OnSegment)
    \/ handleConnDoubleClick(1, AtNode)
    \/ Tick
    \/ \E t \in timers : SaveTimerFires(t)
    \/ \E t \in timers : SavedTimerFires(t)

Spec == Init /\ [][Next]_vars

\* ---- the pointer handlers of a viewer mounted with design id "d1", whose
\* record is absent or holds an edited layout: block 3 moved, a waypoint on
\* connection 0, the first node of connection 1 dragged
StoredEdited ==
    StringifyLayout(
        [blockPositions |-> <<<<3, Pt(R(80), R(268))>>>>,
         pointOverrides |-> <<<<0, <<ZeroOv, ZeroOv>>>>,
                              <<1, <<[dx |-> R(16), dy |-> R(0)]>>>>>>,
         waypoints |-> <<<<0, <<Pt(R(440), R(136))>>>>>>])

\* The viewer just mounted with design id "d1", whose record is one of `records`
InitMounted(records) ==
    /\ ViewerProps
    /\ designId = Some("d1")
    /\ mounted = TRUE
    /\ crashed = FALSE
    /\ ComponentStateInit
    /\ localStorage \in {[d \in DesignIds |-> IF d = "d1" THEN st ELSE StoredAbsent] :
                            st \in records}
    /\ \E r \in {LoadEffect(designId, localStorage, EmptyMap, EmptyMap, EmptyMap)} :
         \E e \in {SaveEffect({}, None, designId, r.bpo, r.cpo, r.cw)} :
            /\ blockPositionOverrides = r.bpo
            /\ connPointOverrides = r.cpo
            /\ connWaypoints = r.cw
            /\ timers = e.timers
            /\ layoutSaveTimer = e.ref
            /\ sinceChange = IF r.changed THEN 0 ELSE SAVE_DEBOUNCE_MS
            /\ \E lay \in {Layout(blocks, connections, r.bpo)} :
                  /\ layout = lay
                  /\ computedPaths = computedPathsOn(lay, connections, r.cpo, r.cw)
    /\ warnings = <<>>
    /\ lastEvent = "mount"
    /\ wpTrip = None
    /\ inputs = 1

InitPointer == InitMounted({StoredAbsent, StoredEdited})

NextPointer ==
    \/ \E p \in PressTargets : handleMouseDown(p)
    \/ \E k \in DOMAIN blocks, p \in PressTargets : handleBlockMouseDown(k, p)
    \/ \E i \in 0..(Len(connections) - 1), p \in PressTargets : handleConnMouseDown(i, p)
    \/ \E i \in 0..(Len(connections) - 1), pointIdx \in 1..MaxNodes, p \in PressTargets :
          handleNodeMouseDown(i, pointIdx, p)
    \/ \E i \in 0..(Len(connections) - 1), p \in PressTargets : handleConnDoubleClick(i, p)
    \/ \E i \in 0..(Len(connections) - 1), pointIdx \in 1..MaxNodes, p \in PressTargets :
          handleNodeContextMenu(i, pointIdx, p)
    \/ \E p \in MoveTargets : handleCanvasMouseMove(p)
    \/ handleCanvasMouseUp

SpecPointer == InitPointer /\ [][NextPointer]_vars

\* ---- double-clicks on the connections of a viewer whose record holds
\* waypoints on connection 1 (on its first and on its last segment, in either
\* order) and a distinct point override for every interior point, or none
WpFirstSeg == Pt(R(320), R(294))
WpLastSeg == Pt(R(440), R(156))
WaypointLists == {<<>>, <<WpFirstSeg>>, <<WpFirstSeg, WpLastSeg>>, <<WpLastSeg, WpFirstSeg>>}

\* Point overrides (1, 0), (2, 0), ..., (n, 0)
DistinctOverrides(n) == [k \in 1..n |-> [dx |-> R(k), dy |-> R(0)]]

WaypointRecords ==
    {StringifyLayout([blockPositions |-> <<>>,
                      pointOverrides |-> IF full THEN <<<<1, DistinctOverrides(2 + 2 * Len(wps))>>>>
                                         ELSE <<>>,
                      waypoints |-> IF wps = <<>> THEN <<>> ELSE <<<<1, wps>>>>])
     : wps \in WaypointLists, full \in BOOLEAN}

InitWaypoints == InitMounted(WaypointRecords)

\* Where a double-click lands: on connection 0, and on connection 1 at the two
\* waypoints, before the first, after the last and on the middle segment
DblClickPoints ==
    {OnSegment, [x |-> 440, y |-> 136], [x |-> 320, y |-> 294], [x |-> 440, y |-> 156],
     [x |-> 290, y |-> 294], [x |-> 470, y |-> 156], [x |-> 380, y |-> 225]}

NextWaypoints ==
    \E i \in 0..(Len(connections) - 1), p \in DblClickPoints : handleConnDoubleClick(i, p)

SpecWaypoints == InitWaypoints /\ [][NextWaypoints]_vars

\* ---- presses on the connections and node drags, at zoom 1 and after a
\* zoom-out, of a viewer whose record is absent or holds an entry for
\* connection 0 and the second interior point of connection 1 moved up by 14,
\* next to connection 0
StoredBent ==
    StringifyLayout(
        [blockPositions |-> <<>>,
         pointOverrides |-> <<<<0, <<[dx |-> R(3), dy |-> R(0)]>>>>,
                              <<1, <<ZeroOv, [dx |-> R(0), dy |-> R(-14)]>>>>>>,
         waypoints |-> <<>>])

InitNodes == InitMounted({StoredAbsent, StoredBent})

\* Where a button is pressed: 4 units from the second node of connection 1, the
\* same place seen at zoom 4/5, between connection 0 and the bent connection
\* 1, on connection 0, and on connection 1 far from its nodes
BetweenPaths == [x |-> 390, y |-> 140]
NodePressPoints ==
    {AtNode, [x |-> 304, y |-> 125], BetweenPaths, OnSegment, [x |-> 300, y |-> 294]}

\* Where the pointer moves: 1, 4 and 45 pixels from AtNode
NodeMoveTargets == {[x |-> 381, y |-> 160], Nudged, Away}

NextNodes ==
    \/ \E i \in 0..(Len(connections) - 1), p \in NodePressPoints : handleConnMouseDown(i, p)
    \/ \E i \in 0..(Len(connections) - 1), pointIdx \in 1..MaxNodes, p \in NodePressPoints :
          handleNodeMouseDown(i, pointIdx, p)
    \/ \E p \in NodeMoveTargets : handleCanvasMouseMove(p)
    \/ handleCanvasMouseUp
    \/ ZoomOut

SpecNodes == InitNodes /\ [][NextNodes]_vars

\* ---- connectionOffsets on bounded connection lists
\* The ids "1", "2", "3", "1<->2" and "2<->3"
OffsetIds == {1, 2, 3, 12, 23}
OffsetConnection == [from_block : OffsetIds, to_block : OffsetIds, signal_name : {"s"}]
MaxOffsetConns == 3
OffsetConnectionLists == UNION {[1..n -> OffsetConnection] : n \in 0..MaxOffsetConns}

InitOffsets ==
    /\ blocks = <<>>
    /\ connections \in OffsetConnectionLists
    /\ phase = "input"
    /\ groupColumn = <<>>
    /\ blockColumn = <<>>
    /\ layoutOut = <<>>
    /\ rerun = None
    /\ offsetsOut = None
    /\ channel = None
    /\ ViewerAbsent

\* The connectionOffsets memo computed for `connections`
RunOffsets ==
    /\ phase = "input"
    /\ phase' = "done"
    /\ offsetsOut' = Some([i \in 0..(Len(connections) - 1) |->
                              ConnectionOffset(connections, i)])
    /\ UNCHANGED <<blocks, connections, groupColumn, blockColumn, layoutOut, rerun,
                   channel, viewerVars>>

NextOffsets == RunOffsets

SpecOffsets == InitOffsets /\ [][NextOffsets]_vars

\* ---- findClearVerticalChannel on bounded arguments
\* Rectangles of blocks, 180 wide and 68 high: six side by side in the band of
\* the segment, and one below it
ChannelBlockXs == {-110, 90, 290, 310, 490, 510}
ChannelBlock(x, y) ==
    [x |-> R(x), y |-> R(y), width |-> R(BLOCK_WIDTH), height |-> R(BLOCK_HEADER + 32)]

\* The rectangles at the x of `xs`, from left to right
RECURSIVE ChannelRow(_)
ChannelRow(xs) ==
    IF xs = {} THEN <<>>
    ELSE <<ChannelBlock(SetMin(xs), 150)>> \o ChannelRow(xs \ {SetMin(xs)})

ChannelBlockLists ==
    {ChannelRow(xs) \o below : xs \in SUBSET ChannelBlockXs,
                               below \in {<<>>, <<ChannelBlock(300, 400)>>}}

\* A segment down, a segment up, and one that ends above the blocks
ChannelSpans == {<<100, 300>>, <<300, 100>>, <<100, 130>>}

InitChannel ==
    /\ blocks = <<>>
    /\ connections = <<>>
    /\ phase = "input"
    /\ groupColumn = <<>>
    /\ blockColumn = <<>>
    /\ layoutOut = <<>>
    /\ rerun = None
    /\ offsetsOut = None
    /\ channel \in {Some([preferredX |-> R(x), startY |-> R(span[1]), endY |-> R(span[2]),
                           blocks |-> bs, x |-> None])
                     : x \in {400, 405}, span \in ChannelSpans, bs \in ChannelBlockLists}
    /\ ViewerAbsent

RunChannel ==
    /\ phase = "input"
    /\ phase' = "done"
    /\ \E c \in {Get(channel)} :
          channel' = Some([c EXCEPT !.x = Some(findClearVerticalChannel(
                                                  c.preferredX, c.startY, c.endY, c.blocks))])
    /\ UNCHANGED <<blocks, connections, groupColumn, blockColumn, layoutOut, rerun,
                   offsetsOut, viewerVars>>

NextChannel == RunChannel

SpecChannel == InitChannel /\ [][NextChannel]_vars

\* ---- the first render of the viewer on varied connections and records
\* A connection may name block 4, which the diagram does not have, and a signal
\* that is in no port list
RenderSignals == {"s", "r", "x"}
RenderConnection ==
    [from_block : 1..(Len(ViewerBlocks) + 1), to_block : 1..(Len(ViewerBlocks) + 1),
     signal_name : RenderSignals]
MaxRenderConns == 2
RenderConnectionLists == UNION {[1..n -> RenderConnection] : n \in 0..MaxRenderConns}

\* Records that hold, for one connection of the viewer's diagram, a waypoint
\* list and a point-override array of any length up to MaxStoredOverrides
MaxStoredWaypoints == 2
MaxStoredOverrides == 3
StoredWaypointLists ==
    UNION {[1..n -> {Pt(R(320), R(136)), Pt(R(380), R(200))}] : n \in 0..MaxStoredWaypoints}
StoredOverrideArrays ==
    UNION {[1..n -> {ZeroOv, [dx |-> R(16), dy |-> R(0)], [dx |-> R(0), dy |-> R(-8)]}] :
              n \in 0..MaxStoredOverrides}
StoredPathEdits ==
    {StringifyLayout([blockPositions |-> <<>>,
                      pointOverrides |-> <<<<i, ovs>>>>,
                      waypoints |-> IF wps = <<>> THEN <<>> ELSE <<<<i, wps>>>>]) :
        i \in 0..(Len(ViewerConnections) - 1), wps \in StoredWaypointLists,
        ovs \in StoredOverrideArrays}

\* The blocks of the viewer's diagram, and the same with blocks 1 and 2 on one
\* board
ViewerBlocksOnBoard ==
    [k \in DOMAIN ViewerBlocks |->
        [ViewerBlocks[k] EXCEPT !.host_hardware = IF k <= 2 THEN "H1" ELSE ""]]

InitRender ==
    /\ phase = "viewer"
    /\ groupColumn = <<>>
    /\ blockColumn = <<>>
    /\ layoutOut = <<>>
    /\ rerun = None
    /\ offsetsOut = None
    /\ channel = None
    /\ designId = None
    /\ mounted = FALSE
    /\ crashed = FALSE
    /\ ComponentStateInit
    /\ NothingLoaded
    /\ layout = <<>>
    /\ computedPaths = <<>>
    /\ warnings = <<>>
    /\ \/ /\ blocks = ViewerBlocks
          /\ connections = ViewerConnections
          /\ localStorage \in {[d \in DesignIds |-> IF d = "d1" THEN st ELSE StoredAbsent] :
                                  st \in StoredPathEdits}
       \/ /\ blocks \in {ViewerBlocks, ViewerBlocksOnBoard}
          /\ connections \in RenderConnectionLists
          /\ localStorage = [d \in DesignIds |-> StoredAbsent]
    /\ lastEvent = "init"
    /\ wpTrip = None
    /\ inputs = 0

NextRender == Mount(Some("d1"))

SpecRender == InitRender /\ [][NextRender]_vars

\* The same viewer with the view controls: the zoom buttons, the reset button,
\* and the pointer on the canvas and on block 1
\* The wheel events tried: deltaY -400, -25, 80 and 200 multiply the zoom by 5,
\* 5/4, 1/5 and -1
WheelDeltas == {-400, -25, 80, 200}
WheelPoints == {OnSegment, Away}

\* A position 90 pixels to the left of and 4 above InBlock1
ToLeftEdge == [x |-> 10, y |-> 96]
ViewMoveTargets == PanTargets \cup {ToLeftEdge}

NextView ==
    \/ \E deltaY \in WheelDeltas, p \in WheelPoints : onWheel(TRUE, 0, deltaY, p)
    \/ \E deltaY \in {-25, 80} : onWheel(FALSE, 30, deltaY, Away)
    \/ ZoomIn
    \/ ZoomOut
    \/ handleReset
    \/ handleMouseDown(Away)
    \/ handleBlockMouseDown(1, InBlock1)
    \/ \E p \in ViewMoveTargets : handleCanvasMouseMove(p)
    \/ handleCanvasMouseUp

SpecView == InitPointer /\ [][NextView]_vars

\* -------------------------------------------- claims on the layering
\* The nodes reachable from n in one or more steps of `outgoing`
RECURSIVE ReachFrom(_, _)
ReachFrom(S, outgoing) ==
    LET T == S \cup UNION {outgoing[n] : n \in S}
    IN IF T = S THEN S ELSE ReachFrom(T, outgoing)

Acyclic(outgoing) ==
    \A n \in DOMAIN outgoing : n \notin ReachFrom(outgoing[n], outgoing)

\* C1: when the connections inside a hardware group form an acyclic graph, every
\* connection u -> v inside the group has blockColumn(u) < blockColumn(v).
C1_IntraGroupTopological ==
    phase = "done" =>
        \A g \in DOMAIN blockColumn :
            LET grp == HwGroups(blocks)[g]
                out == IntraOutgoing(grp, connections)
            IN Acyclic(out) =>
                 \A u \in DOMAIN out : \A v \in out[u] :
                     blockColumn[g][u] < blockColumn[g][v]

\* C2: when the connections between hardware groups form an acyclic graph, every
\* connection between two different groups goes from a group with a strictly
\* smaller column to a group with a strictly larger column.
C2_GroupTopological ==
    phase = "done" =>
        LET out == GroupOutgoing(HwGroups(blocks), connections)
        IN Acyclic(out) =>
             \A u \in DOMAIN out : \A v \in out[u] :
                 groupColumn[u] < groupColumn[v]

\* -------------------------------------------- claims on the stored layout
\* The three override maps are empty
NoOverrides ==
    /\ blockPositionOverrides = EmptyMap
    /\ connPointOverrides = EmptyMap
    /\ connWaypoints = EmptyMap

\* The pending write timers
WriteTimers == {t \in timers : t.kind = "save"}

\* C3: when the design id has just become an id without a saved record, by the
\* first mount or by a change of the id of the mounted viewer, the three override
\* maps are empty and no exception was raised.
C3_NoRecordNoOverrides ==
    (/\ lastEvent \in {"mount", "designId"}
     /\ designId # None
     /\ localStorage[Get(designId)] = StoredAbsent)
        => NoOverrides /\ ~crashed

\* C4: once the mounted viewer has no write pending, a record stored under its
\* design id holds the override maps that are on the screen (the stored record
\* does not stay different from them).
C4_StoredRecordFollowsOverrides ==
    (mounted /\ designId # None /\ WriteTimers = {}) =>
        LET saved == loadLayout(localStorage, Get(designId))
        IN (saved # None /\ Get(saved).lists) =>
              /\ MapFromEntries(Get(saved).blockPositions) = blockPositionOverrides
              /\ MapFromEntries(Get(saved).pointOverrides) = connPointOverrides
              /\ MapFromEntries(Get(saved).waypoints) = connWaypoints

\* C5: at every moment at most one write timer is pending, and a write has fired
\* only when the whole debounce window had passed since the last override change.
C5_TrailingDebounce ==
    /\ Cardinality(WriteTimers) <= 1
    /\ lastEvent = "saveTimer" => sinceChange >= SAVE_DEBOUNCE_MS

\* A write has fired after two waypoint insertions
C5_WriteAfterTwoChanges ==
    /\ lastEvent = "saveTimer"
    /\ Cardinality(DOMAIN connWaypoints) = 2

\* C6: no timer callback runs after the viewer that set the timer was unmounted.
C6_NoCallbackAfterUnmount == lastEvent # "timerAfterUnmount"

\* C9: mounting raises no exception, and with a record that is absent, not JSON
\* or without the three lists the mounted viewer has no overrides.
C9_CorruptRecordTolerated ==
    lastEvent = "mount" =>
        /\ ~crashed
        /\ (mounted /\ localStorage[Get(designId)].kind # "layout") => NoOverrides

\* -------------------------------------------- claims on the pointer handlers
\* C7: at most one of panning, block dragging and node dragging is active.
C7_SingleActiveMode ==
    Cardinality({m \in {"Panning", "DraggingBlock", "DraggingNode"} :
                    \/ m = "Panning" /\ dragging
                    \/ m = "DraggingBlock" /\ draggedBlockRef # None
                    \/ m = "DraggingNode" /\ draggedNodeRef # None}) <= 1

\* C8: when the waypoint just inserted on a connection has been removed again,
\* the rendered path of the connection is the path before the insertion and its
\* point-override array has the length it had before the insertion.
C8_InsertThenRemoveRestores ==
    (wpTrip # None /\ Get(wpTrip).stage = "removed") =>
        LET i == Get(wpTrip).connIdx
        IN /\ Get(computedPaths[i]).path = Get(wpTrip).path
           /\ Len(MapGetOr(connPointOverrides, i, <<>>)) = Get(wpTrip).ovLen

C12_LayoutTotal ==
    phase = "done" =>
        /\ \A i \in DOMAIN blocks :
              Cardinality({k \in DOMAIN layoutOut : layoutOut[k].block.id = blocks[i].id}) = 1
        /\ Len(layoutOut) = Len(blocks)
        /\ \A g \in DOMAIN groupColumn : groupColumn[g] \in Nat
        /\ \A g \in DOMAIN blockColumn : \A id \in DOMAIN blockColumn[g] :
              blockColumn[g][id] \in Nat

\* -------------------------------------------- claims on the rendered paths
\* The block ids of the diagram, and a connection without one of its blocks
ExistingIds == {blocks[k].id : k \in DOMAIN blocks}
MissingEndpoint(c) == c.from_block \notin ExistingIds \/ c.to_block \notin ExistingIds

\* C13: whatever waypoints and point overrides a connection has, the first and
\* the last point of its rendered path are the output-port and the input-port
\* anchors of its blocks.
C13_EndpointsArePorts ==
    mounted =>
        \A i \in DOMAIN computedPaths :
            computedPaths[i] # None =>
                LET c == connections[i + 1]
                    pts == Get(computedPaths[i]).points
                IN /\ pts[1] = getPortPosition(Get(LayoutMapGet(layout, c.from_block)),
                                               c.signal_name, "output")
                   /\ pts[Len(pts)] = getPortPosition(Get(LayoutMapGet(layout, c.to_block)),
                                                      c.signal_name, "input")

\* Connection 0 is rendered with two waypoints and three point overrides, a
\* nonzero one first: its path has four interior points and the first is moved
C13_RenderedWithEdits ==
    /\ mounted
    /\ 0 \in DOMAIN connWaypoints
    /\ Len(connWaypoints[0]) = 2
    /\ Len(connPointOverrides[0]) = 3
    /\ connPointOverrides[0][1] # ZeroOv
    /\ Len(Get(computedPaths[0]).points) = 6
    /\ Get(computedPaths[0]).path # Get(computedPaths[0]).wpPath

\* C14: a connection that names a block that does not exist changes no
\* rectangle (the layout is the layout without it), has no rendered path, and
\* every other connection has one; no exception is raised.
C14_MissingEndpointIgnored ==
    mounted =>
        /\ ~crashed
        /\ layout = Layout(blocks, SelectSeq(connections, LAMBDA c : ~MissingEndpoint(c)),
                           blockPositionOverrides)
        /\ \A i \in DOMAIN computedPaths :
              (computedPaths[i] = None) <=> MissingEndpoint(connections[i + 1])

\* The viewer is mounted on a connection from block 3 to a block that does not
\* exist followed by a connection from block 3 to block 1, which is rendered
C14_RenderedBesideMissing ==
    /\ mounted
    /\ Len(connections) = 2
    /\ connections[1].from_block = 3
    /\ MissingEndpoint(connections[1])
    /\ connections[2].from_block = 3
    /\ connections[2].to_block = 1
    /\ computedPaths[1] # None

\* C15: when the mounted viewer has a connection that names a block that does
\* not exist, it has written a warning.
C15_MissingEndpointWarned ==
    (mounted /\ \E k \in DOMAIN connections : MissingEndpoint(connections[k]))
        => warnings # <<>>

\* C16: the path of a connection starts on the right edge of its source block
\* and ends on the left edge of its destination block, at the row of the signal
\* name in the outputs (inputs) of the block, and at row 0 when the name is not
\* in that list or the list is empty.
C16_PortLookupTotal ==
    mounted =>
        \A i \in DOMAIN computedPaths :
            computedPaths[i] # None =>
                LET c == connections[i + 1]
                    pts == Get(computedPaths[i]).points
                    fromLb == Get(LayoutMapGet(layout, c.from_block))
                    toLb == Get(LayoutMapGet(layout, c.to_block))
                    Row(ports) ==
                        IF \E k \in DOMAIN ports : ports[k] = c.signal_name
                        THEN (CHOOSE k \in DOMAIN ports :
                                 /\ ports[k] = c.signal_name
                                 /\ \A j \in 1..(k - 1) : ports[j] # c.signal_name) - 1
                        ELSE 0
                IN /\ pts[1] = Pt(RAdd(fromLb.x, fromLb.width),
                                  RAdd(fromLb.y, R(36 + 10 + 20 * Row(fromLb.block.outputs))))
                   /\ pts[Len(pts)] = Pt(toLb.x,
                                         RAdd(toLb.y, R(36 + 10 + 20 * Row(toLb.block.inputs))))

\* A rendered connection into the second input of block 2 beside a rendered
\* connection that starts at block 2, whose output list is empty
C16_SecondRowAndEmptyList ==
    /\ mounted
    /\ Len(connections) = 2
    /\ connections[1] = [from_block |-> 3, to_block |-> 2, signal_name |-> "r"]
    /\ connections[2].from_block = 2
    /\ connections[2].signal_name = "x"
    /\ computedPaths[0] # None
    /\ computedPaths[1] # None

\* -------------------------------------------- claims on the spread offsets
\* C17: connection i gets the offset (k - (n - 1) / 2) * 15, where n is the
\* number of connections with the same unordered pair {from_block, to_block}
\* and k is the number of those with a smaller index; a connection alone in its
\* pair gets 0.
C17_SpreadOffsets ==
    phase = "done" =>
        \A i \in DOMAIN Get(offsetsOut) :
            LET Pair(j) == {connections[j + 1].from_block, connections[j + 1].to_block}
                S == {j \in DOMAIN Get(offsetsOut) : Pair(j) = Pair(i)}
                n == Cardinality(S)
                k == Cardinality({j \in S : j < i})
            IN Get(offsetsOut)[i] = RMul(RSub(R(k), Rat(n - 1, 2)), R(15))

\* -------------------------------------------- claims on the view controls
\* C18: after every wheel event, toolbar zoom and reset the zoom factor is in
\* [0.2, 5], and a wheel event changes neither the dragging flag, the dragged
\* block, the dragged node nor an override map.
C18_ZoomClampedWheelFrame ==
    [][/\ RLe(MIN_ZOOM, zoom') /\ RLe(zoom', R(MAX_ZOOM))
       /\ lastEvent' = "wheel" => UNCHANGED <<dragVars, overrideVars>>]_vars

\* The zoom is at its upper limit after a wheel zoom during a pan of the canvas
C18_WheelToLimitWhilePanning ==
    /\ lastEvent = "wheel"
    /\ dragging
    /\ zoom = R(MAX_ZOOM)

\* C19: a wheel zoom at the canvas position P leaves the content point under P
\* where it is: (P - pan) / zoom is the same before and after on both axes, also
\* when the new zoom is clamped.
C19_ZoomAnchored ==
    [][\A deltaY \in WheelDeltas, p \in WheelPoints :
          onWheel(TRUE, 0, deltaY, p) =>
              /\ RDiv(RSub(R(p.x), pan.x), zoom) = RDiv(RSub(R(p.x), pan'.x), zoom')
              /\ RDiv(RSub(R(p.y), pan.y), zoom) = RDiv(RSub(R(p.y), pan'.y), zoom')]_vars

\* A wheel zoom by 5 at (400, 200), from the zoom 5/4 and the pan (-80, -34) that
\* a wheel zoom at (320, 136) left, was clamped at 5 and moved the pan
C19_ClampedZoomMovedPan ==
    /\ lastEvent = "wheel"
    /\ zoom = R(MAX_ZOOM)
    /\ pan = Pt(R(-1520), R(-736))

\* -------------------------------------------- claims on the release
\* C20: a pointer-up on the canvas or the pointer leaving it, in any mode, ends
\* with dragging false, no dragged block and no dragged node, and changes none
\* of the three override maps.
C20_ReleaseEndsEveryMode ==
    [][handleCanvasMouseUp =>
          /\ dragging' = FALSE
          /\ draggedBlockRef' = None
          /\ draggedBlockId' = None
          /\ draggedNodeRef' = None
          /\ UNCHANGED overrideVars]_vars

\* A node drag that gave a connection a point override, with nothing stored
\* for the design, has been released
C20_NodeDragReleased ==
    /\ localStorage["d1"] = StoredAbsent
    /\ \E i \in DOMAIN connPointOverrides :
          \E k \in DOMAIN connPointOverrides[i] : connPointOverrides[i][k] # ZeroOv
    /\ blockPositionOverrides = EmptyMap
    /\ draggedNodeRef = None
    /\ draggedBlockRef = None
    /\ ~dragging

\* -------------------------------------------- claims on the block drag
\* C21: while a block is held, a pointer move that is less than 5 pixels from
\* the position of the pointer-down on both axes, and the release, leave the
\* block-position map as it is and schedule no write.
C21_ClickIsNotDrag ==
    [][(/\ draggedBlockRef # None
        /\ \/ handleCanvasMouseUp
           \/ \E p \in MoveTargets :
                 /\ handleCanvasMouseMove(p)
                 /\ Abs(p.x - dragStartPos.mouseX) < BLOCK_DRAG_THRESHOLD
                 /\ Abs(p.y - dragStartPos.mouseY) < BLOCK_DRAG_THRESHOLD)
       => UNCHANGED <<blockPositionOverrides, timers, layoutSaveTimer>>]_vars

RectBefore(a, b) == a.x + a.width < b.x \/ a.y + a.height < b.y

\* C30: no two rectangles of the computed layout overlap or touch: of any two,
\* one ends before the other begins, horizontally or vertically.
C30_NoTwoBlocksOverlap ==
    phase = "done" =>
        \A i, j \in DOMAIN layoutOut :
            i < j => RectBefore(layoutOut[i], layoutOut[j]) \/ RectBefore(layoutOut[j], layoutOut[i])

\* A layout of three blocks in one canvas column: two stacked in one
\* sub-column of a group, and one in a second group below them
C30_StackedBlocksAndGroups ==
    /\ phase = "done"
    /\ Len(layoutOut) = 3
    /\ \E i, j, k \in DOMAIN layoutOut :
          /\ layoutOut[i].block.host_hardware = "H1"
          /\ layoutOut[j].block.host_hardware = "H1"
          /\ layoutOut[k].block.host_hardware = "H2"
          /\ layoutOut[i].x = layoutOut[j].x
          /\ layoutOut[j].x = layoutOut[k].x
          /\ layoutOut[i].y < layoutOut[j].y
          /\ layoutOut[j].y < layoutOut[k].y

\* -------------------------------------------- claims on the written record
\* C28: a write under the key of design id D holds only overrides loaded from
\* D's record or created while D was current.  No step of Spec creates a block
\* position, so a record that holds block positions after a step held block
\* positions before it: they never appear under a key that had none.
C28_WriteHoldsOwnOverrides ==
    [][\A d \in DesignIds :
          (localStorage'[d] # localStorage[d] /\ localStorage'[d].blockPositions # <<>>) =>
              /\ localStorage[d].kind = "layout"
              /\ \A k \in DOMAIN localStorage'[d].blockPositions :
                    \E j \in DOMAIN localStorage[d].blockPositions :
                       localStorage'[d].blockPositions[k] = localStorage[d].blockPositions[j]]_vars

\* -------------------------------------------- claims on the waypoints
\* For every point of the path with waypoints (in path order) the base point
\* or the waypoint it comes from: the pair of a waypoint is the pair spliced in
\* by that waypoint's turn of the loop of insertWaypointsIntoPath, and it comes
\* after the pairs of the waypoints whose turn is later.
WpOwners(basePoints, wps) ==
    LET w == [k \in DOMAIN wps |-> WpWithSeg(basePoints, wps[k])]
        TurnAfter(j, k) ==
            \/ w[j].segIdx < w[k].segIdx
            \/ /\ w[j].segIdx = w[k].segIdx
               /\ RLt(w[j].t, w[k].t) \/ (w[j].t = w[k].t /\ j > k)
        pos == [k \in DOMAIN wps |->
                  w[k].segIdx + 2 + 2 * Cardinality({j \in DOMAIN wps : TurnAfter(j, k)})]
    IN [i \in 1..(Len(basePoints) + 2 * Len(wps)) |->
          IF \E k \in DOMAIN wps : i \in {pos[k], pos[k] + 1}
          THEN [kind |-> "waypoint", idx |-> (CHOOSE k \in DOMAIN wps : i \in {pos[k], pos[k] + 1}) - 1,
                half |-> i - pos[CHOOSE k \in DOMAIN wps : i \in {pos[k], pos[k] + 1}]]
          ELSE [kind |-> "base", idx |-> i - 1 - 2 * Cardinality({k \in DOMAIN wps : pos[k] < i}),
                half |-> 0]]

\* The owner `o` after waypoint number k was removed from the list
OwnerAfterRemoval(o, k) ==
    IF o.kind = "waypoint" /\ o.idx > k THEN [o EXCEPT !.idx = o.idx - 1] ELSE o

\* C23: a double-click that removes waypoint k of a connection with several
\* waypoints, whose point-override array has one entry per interior point,
\* leaves an array with one entry per interior point of the new path, each the
\* entry the same point (base point or point of another waypoint) had before.
C23_RemovalDeletesOwnEntries ==
    [][\A connIdx \in 0..(Len(connections) - 1), p \in DblClickPoints :
          \A wps \in {MapGetOr(connWaypoints, connIdx, <<>>)} :
          \A k \in {FindWaypointNear(wps, SvgPoint(p), WAYPOINT_REMOVE_RADIUS)} :
             (Len(wps) >= 2 /\ k >= 0 /\ handleConnDoubleClick(connIdx, p)) =>
                \A basePoints \in {parsePathPoints(Get(BasePath(blocks, connections,
                                                        blockPositionOverrides, connIdx)))} :
                \A before \in {WpOwners(basePoints, wps)},
                   after \in {WpOwners(basePoints, MapGetOr(connWaypoints', connIdx, <<>>))},
                   old \in {MapGetOr(connPointOverrides, connIdx, <<>>)},
                   new \in {MapGetOr(connPointOverrides', connIdx, <<>>)} :
                   Len(old) = Len(before) - 2 =>
                      /\ Len(new) = Len(after) - 2
                      /\ \A a \in DOMAIN new :
                            \E b \in DOMAIN old :
                               /\ ~(before[b + 1].kind = "waypoint" /\ before[b + 1].idx = k)
                               /\ OwnerAfterRemoval(before[b + 1], k) = after[a + 1]
                               /\ new[a] = old[b]]_vars

\* C24: a double-click that inserts a waypoint leaves a point-override array
\* with one entry per interior point of the new path; the entries of the two
\* points of the new waypoint are (0, 0) and every other point has the entry it
\* had before (0, 0 where the array was shorter).
C24_InsertionKeepsAlignment ==
    [][\A connIdx \in 0..(Len(connections) - 1), p \in DblClickPoints :
          \A wps \in {MapGetOr(connWaypoints, connIdx, <<>>)} :
          \A k \in {FindWaypointNear(wps, SvgPoint(p), WAYPOINT_REMOVE_RADIUS)} :
             (k < 0 /\ handleConnDoubleClick(connIdx, p)) =>
                \A basePoints \in {parsePathPoints(Get(BasePath(blocks, connections,
                                                        blockPositionOverrides, connIdx)))} :
                \A before \in {WpOwners(basePoints, wps)},
                   after \in {WpOwners(basePoints, MapGetOr(connWaypoints', connIdx, <<>>))},
                   new \in {MapGetOr(connPointOverrides', connIdx, <<>>)} :
                \A old \in {PadTo(MapGetOr(connPointOverrides, connIdx, <<>>),
                                   Len(before) - 2)} :
                   /\ Len(MapGetOr(connWaypoints', connIdx, <<>>)) = Len(wps) + 1
                   /\ Len(new) = Len(after) - 2
                   /\ Len(new) = Len(Get(computedPaths'[connIdx]).points) - 2
                   /\ \A a \in DOMAIN new :
                         IF after[a + 1].kind = "waypoint" /\ after[a + 1].idx = Len(wps)
                         THEN new[a] = ZeroOv
                         ELSE \E b \in DOMAIN old :
                                 before[b + 1] = after[a + 1] /\ new[a] = old[b]]_vars

\* A waypoint has been inserted on the middle segment of connection 1, between
\* the points of its two waypoints: two (0, 0) entries after the third
C24_InsertedBetweenWaypoints ==
    /\ 1 \in DOMAIN connWaypoints
    /\ connWaypoints[1] = <<WpLastSeg, WpFirstSeg, Pt(R(380), R(225))>>
    /\ connPointOverrides[1] =
          SubSeq(DistinctOverrides(6), 1, 3) \o <<ZeroOv, ZeroOv>>
              \o SubSeq(DistinctOverrides(6), 4, 6)

\* Where the claim puts the pair of waypoint wp: on the base segment nearest to
\* it, at the waypoint's coordinate along the segment, at least 5 units inside
\* the segment's ends
OwnSplitPoint(basePoints, wp) ==
    LET segIdx == WpWithSeg(basePoints, wp).segIdx
        p1 == basePoints[segIdx + 1]
        p2 == basePoints[segIdx + 2]
    IN IF RLt(RAbs(RSub(p1.y, p2.y)), R(1))
       THEN Pt(RMax(RAdd(RMin(p1.x, p2.x), R(5)), RMin(RSub(RMax(p1.x, p2.x), R(5)), wp.x)),
               p1.y)
       ELSE Pt(p1.x,
               RMax(RAdd(RMin(p1.y, p2.y), R(5)), RMin(RSub(RMax(p1.y, p2.y), R(5)), wp.y)))

\* C29: the path with waypoints of every rendered connection has two points
\* more than the base path per waypoint, and the two points of each waypoint
\* are both at that waypoint's own place on its nearest base segment.
C29_PairAtOwnCoordinate ==
    \A i \in 0..(Len(connections) - 1) :
        (i \in DOMAIN computedPaths /\ computedPaths[i] # None) =>
            \A wps \in {MapGetOr(connWaypoints, i, <<>>)} :
            \A basePoints \in {parsePathPoints(Get(BasePath(blocks, connections,
                                                    blockPositionOverrides, i)))} :
            \A points \in {parsePathPoints(Get(computedPaths[i]).wpPath)} :
            \A owners \in {WpOwners(basePoints, wps)} :
                /\ Len(points) = Len(basePoints) + 2 * Len(wps)
                /\ \A a \in DOMAIN points :
                      owners[a].kind = "waypoint" =>
                          points[a] = OwnSplitPoint(basePoints, wps[owners[a].idx + 1])

\* The first half of the claim alone: two points more per waypoint
WpPathLength ==
    \A i \in 0..(Len(connections) - 1) :
        (i \in DOMAIN computedPaths /\ computedPaths[i] # None) =>
            Len(parsePathPoints(Get(computedPaths[i]).wpPath))
                = Len(parsePathPoints(Get(BasePath(blocks, connections,
                                                   blockPositionOverrides, i))))
                  + 2 * Len(MapGetOr(connWaypoints, i, <<>>))

\* -------------------------------------------- claims on the node drag
\* Entry a (1-based) of the snapshot taken at the start of the node drag, (0, 0)
\* past its end
SnapshotEntry(a) ==
    IF a <= Len(connDragBaseOverrides) THEN connDragBaseOverrides[a] ELSE ZeroOv

\* What C25 says of a pointer move to p during a node drag
NodeOverrideFollows(p) ==
    LET connIdx == Get(draggedNodeRef).connIdx
        ovIdx == Get(draggedNodeRef).pointIdx - 1
        dx == RDiv(R(p.x - connDragStart.mouseX), zoom)
        dy == RDiv(R(p.y - connDragStart.mouseY), zoom)
    IN /\ connIdx \in DOMAIN connPointOverrides'
       /\ \A new \in {connPointOverrides'[connIdx]} :
             /\ Len(new) = Max2(Len(connDragBaseOverrides), ovIdx + 1)
             /\ new[ovIdx + 1] = [dx |-> RAdd(SnapshotEntry(ovIdx + 1).dx, dx),
                                   dy |-> RAdd(SnapshotEntry(ovIdx + 1).dy, dy)]
             /\ \A a \in DOMAIN new \ {ovIdx + 1} : new[a] = SnapshotEntry(a)
       /\ \A j \in (DOMAIN connPointOverrides \cup DOMAIN connPointOverrides') \ {connIdx} :
             /\ j \in DOMAIN connPointOverrides /\ j \in DOMAIN connPointOverrides'
             /\ connPointOverrides'[j] = connPointOverrides[j]

\* C25, as stated: after every pointer move during a node drag the dragged
\* point's override is its snapshot value plus the pointer delta divided by
\* zoom, the other entries of the connection equal the snapshot and the arrays
\* of the other connections are unchanged.
C25_NodeOverrideFollowsPointer ==
    [][\A p \in NodeMoveTargets :
          (draggedNodeRef # None /\ handleCanvasMouseMove(p)) => NodeOverrideFollows(p)]_vars

\* C25, amended: the same for every pointer move that is at least 2 pixels from
\* the pointer-down on one axis; and the snapshot taken by a pointer-down that
\* starts a node drag is the connection's array at that moment, so that a second
\* drag adds to the result of the first.
C25_NodeOverrideFromSnapshot ==
    [][/\ \A p \in NodeMoveTargets :
             (/\ draggedNodeRef # None
              /\ \/ Abs(p.x - connDragStart.mouseX) >= NODE_DRAG_THRESHOLD
                 \/ Abs(p.y - connDragStart.mouseY) >= NODE_DRAG_THRESHOLD
              /\ handleCanvasMouseMove(p))
             => NodeOverrideFollows(p)
       /\ (draggedNodeRef = None /\ draggedNodeRef' # None)
             => connDragBaseOverrides' =
                   MapGetOr(connPointOverrides, Get(draggedNodeRef').connIdx, <<>>)]_vars

\* The second interior point of connection 1, stored at (0, -14), is dragged a
\* second time: the snapshot is the result of the first drag, and the entry is
\* the snapshot plus the 20 by 40 pixels of the second drag
C25_TwoDragsAdd ==
    /\ draggedNodeRef = Some([connIdx |-> 1, pointIdx |-> 2])
    /\ DOMAIN connPointOverrides = {0, 1}
    /\ Len(connDragBaseOverrides) = 2
    /\ connPointOverrides[0] = <<[dx |-> R(3), dy |-> R(0)]>>
    /\ connDragBaseOverrides[1] = ZeroOv
    /\ connDragBaseOverrides[2] # [dx |-> R(0), dy |-> R(-14)]
    /\ connPointOverrides[1] =
          <<ZeroOv, [dx |-> RAdd(connDragBaseOverrides[2].dx, R(20)),
                     dy |-> RAdd(connDragBaseOverrides[2].dy, R(40))]>>

\* The smallest squared distance from q to a segment of the rendered path ci
PathDistSq(paths, ci, q) ==
    RSetMin({pointToSegmentDistSq(q.x, q.y, pts[k].x, pts[k].y, pts[k + 1].x, pts[k + 1].y)
             : pts \in {Get(paths[ci]).points}, k \in 1..(Len(Get(paths[ci]).points) - 1)})

\* C26: a pointer-down on a connection selects the connection with the rendered
\* path nearest to the pointer (the lowest index on a tie) whatever connection
\* the event was dispatched to; a node drag starts exactly when that path has
\* an interior point less than 25 units from the pointer, and the dragged point
\* is then the nearest interior point.
C26_NearestPathSelected ==
    [][\A i \in 0..(Len(connections) - 1), p \in NodePressPoints :
          handleConnMouseDown(i, p) =>
             \A paths \in {computedPaths}, q \in {SvgPoint(p)} :
             \A dist \in {[ci \in {c \in DOMAIN paths : paths[c] # None} |->
                              PathDistSq(paths, ci, q)]} :
             \A best \in {ci \in DOMAIN dist :
                              \A cj \in DOMAIN dist :
                                 /\ RLe(dist[ci], dist[cj])
                                 /\ cj < ci => RLt(dist[ci], dist[cj])} :
             \A pts \in {Get(paths[best]).points} :
             \A near \in {pi \in 1..(Len(pts) - 2) :
                              RLt(DistSq(pts[pi + 1].x, pts[pi + 1].y, q.x, q.y),
                                  R(NODE_GRAB_RADIUS * NODE_GRAB_RADIUS))} \cup {0} :
                /\ selectedConn' = Some(best)
                /\ near # 0 => /\ draggedNodeRef' # None
                               /\ Get(draggedNodeRef').connIdx = best
                               /\ \A pi \in 1..(Len(pts) - 2) :
                                     LET d(k) == DistSq(pts[k + 1].x, pts[k + 1].y, q.x, q.y)
                                         mine == Get(draggedNodeRef').pointIdx
                                     IN /\ RLe(d(mine), d(pi))
                                        /\ pi < mine => RLt(d(mine), d(pi))
                /\ (\A pi \in 1..(Len(pts) - 2) :
                        ~RLt(DistSq(pts[pi + 1].x, pts[pi + 1].y, q.x, q.y),
                             R(NODE_GRAB_RADIUS * NODE_GRAB_RADIUS)))
                      => UNCHANGED draggedNodeRef]_vars

\* A press between connection 0 and the bent connection 1, on the stroke of
\* both and nearer to connection 1, selected connection 1 and grabbed its
\* second interior point
C26_NearerPathOverDispatch ==
    /\ connDragStart = [mouseX |-> BetweenPaths.x, mouseY |-> BetweenPaths.y]
    /\ selectedConn = Some(1)
    /\ draggedNodeRef = Some([connIdx |-> 1, pointIdx |-> 2])
    /\ OnConn(computedPaths, 0, SvgPoint(BetweenPaths))
    /\ OnConn(computedPaths, 1, SvgPoint(BetweenPaths))

\* -------------------------------------------- claims on the router
\* A vertical line at x from startY to endY passes within 10 units of a block
PassesNearBlock(c, x) ==
    \E i \in DOMAIN c.blocks :
        LET b == c.blocks[i]
        IN /\ RLe(RSub(b.x, R(10)), x)
           /\ RLe(x, RAdd(RAdd(b.x, b.width), R(10)))
           /\ RLe(RSub(b.y, R(10)), RMax(c.startY, c.endY))
           /\ RLe(RMin(c.startY, c.endY), RAdd(RAdd(b.y, b.height), R(10)))

\* The 31 candidates in the order preferred, -20, +20, -40, +40, ..., -300, +300
ChannelCandidates(c) ==
    [k \in 1..31 |->
        IF k = 1 THEN c.preferredX
        ELSE IF k % 2 = 0 THEN RSub(c.preferredX, R(20 * (k \div 2)))
        ELSE RAdd(c.preferredX, R(20 * (k \div 2)))]

\* C27: findClearVerticalChannel returns the first of the 31 candidates that
\* passes within 10 units of no block over the segment's y-range, and the
\* preferred x when there is none; so a result other than the preferred x
\* passes near no block.
C27_FirstClearChannel ==
    (phase = "done" /\ channel # None) =>
        \A c \in {Get(channel)} :
        \A cands \in {ChannelCandidates(c)} :
        \A clear \in {{k \in DOMAIN cands : ~PassesNearBlock(c, cands[k])}} :
            /\ c.x # None
            /\ Get(c.x) = IF clear = {} THEN c.preferredX ELSE cands[SetMin(clear)]
            /\ Get(c.x) # c.preferredX => ~PassesNearBlock(c, Get(c.x))

\* A call that moved 120 to the right: the preferred x and every nearer
\* candidate, the one 120 to the left included, pass near a block
C27_MovedAsideToTheRight ==
    /\ phase = "done"
    /\ channel # None
    /\ Get(channel).preferredX = R(400)
    /\ Get(channel).x = Some(R(520))
    /\ PassesNearBlock(Get(channel), R(280))

\* A call that found all 31 candidates blocked and kept the preferred x
ChannelGaveUp ==
    /\ phase = "done"
    /\ channel # None
    /\ Get(channel).x = Some(Get(channel).preferredX)
    /\ \A k \in 1..31 :
          PassesNearBlock(Get(channel), ChannelCandidates(Get(channel))[k])

=============================================================================
